---- MODULE Spec2Model ----
(***************************************************************************)
(* S3 event forwarder: the two handler variants of the repository.         *)
(*   variant "lambda"    : src/lambda/main.py, src/lambda/config.py,       *)
(*                         src/destinations.py                             *)
(*   variant "lambda-tf" : src/lambda-tf/modules/lambda/src/main.py and    *)
(*                         .../destinations.py                             *)
(* One invocation of lambda_handler is a process whose position is pc; a   *)
(* step is the handler's prologue, one iteration of a dispatch loop, or    *)
(* the epilogue that builds the response.  Python dicts are functions      *)
(* whose DOMAIN is the set of keys present.                                *)
(***************************************************************************)
EXTENDS Integers, Sequences, FiniteSets, TLC

(* ------------------------------- bounds -------------------------------- *)
\* lambda: at most MaxDests configured destinations (queues plus topics);
\* lambda-tf: at most MaxDests entries in destinations.json
MaxDests == 2
\* at most MaxRecords entries in the trigger's Records list
MaxRecords == 2
\* invocations served by one process
MaxInvocations == 2

(* --------------------------- Python helpers ---------------------------- *)
None == "None"
EmptyDict == <<>>

\* dict.get(k, dflt)
Get(d, k, dflt) == IF k \in DOMAIN d THEN d[k] ELSE dflt

\* truth value of a string-or-None value (`if not queue_url`)
Truthy(v) == v # None /\ v # ""

\* None where a dict is expected (Optional[Dict]): a value with the single key "None"
NoneDict == [None |-> TRUE]
IsNone(d) == "None" \in DOMAIN d

\* mutant of DictTruthy: the test is `is not None`
DictTruthy_is_not_none(d) == ~IsNone(d)

\* truth value of an Optional[Dict] (`if config`, `if not s3_event`)
DictTruthy(d) == ~IsNone(d) /\ DOMAIN d # {}

\* a JSON value that is not an array, where the code expects a list
NonList(x) == <<[json_nonlist |-> x]>>
\* mutant of IsList: the isinstance test is dropped
IsList_always(v) == TRUE
\* isinstance(v, list)
IsList(v) == ~(Len(v) = 1 /\ "json_nonlist" \in DOMAIN v[1])

\* an operator's outcome: a returned value or a raised exception
Return(v) == [raised |-> FALSE, value |-> v]
Raise(e) == [raised |-> TRUE, exc |-> e]

RECURSIVE SeqsUpTo(_, _)
SeqsUpTo(S, n) ==
    IF n = 0 THEN {<<>>}
    ELSE LET shorter == SeqsUpTo(S, n - 1)
         IN shorter \cup {Append(s, x) : s \in {t \in shorter : Len(t) = n - 1}, x \in S}

(* ------------------- the send capability (boto3) ----------------------- *)
\* What one call of sqs_client.send_message / sns_client.publish does:
\* it returns a MessageId or raises.
SendOk == [kind |-> "ok", code |-> ""]
ClientError(code) == [kind |-> "ClientError", code |-> code]
NoCredentialsError == [kind |-> "NoCredentialsError", code |-> ""]
RuntimeError == [kind |-> "RuntimeError", code |-> ""]
SendOutcomes == {SendOk, ClientError("AccessDenied"), NoCredentialsError, RuntimeError}
\* every class of error the except clauses tell apart
ErrorCodes ==
    {"AccessDenied", "UnauthorizedOperation", "ResourceNotFoundException", "InvalidParameter",
     "ThrottlingException"}
AllSendOutcomes ==
    {SendOk, NoCredentialsError, RuntimeError} \cup {ClientError(code) : code \in ErrorCodes}
MessageId == "mid"

(* ----------------------------- triggers -------------------------------- *)
\* the record of src/test_lambda.py:96-110
S3Record ==
    [eventVersion |-> "2.1", eventSource |-> "aws:s3", awsRegion |-> "us-east-1",
     eventTime |-> "2024-12-01T10:00:00.000Z", eventName |-> "ObjectCreated:Put",
     s3 |-> [bucket |-> [name |-> "test-bucket"], object |-> [key |-> "test/file.txt"]]]
\* a record of another event source
OtherRecord == [eventSource |-> "aws:sqs", body |-> "hello"]
RecordKinds == {S3Record, OtherRecord}

RecordTriggers == {[Records |-> rs] : rs \in SeqsUpTo(RecordKinds, MaxRecords)}
\* CloudWatch Events "Object Created:Put" notification
DetailTypeTrigger ==
    ("detail-type" :> "Object Created:Put") @@
    [detail |-> [bucket |-> [name |-> "cw-bucket"], object |-> [key |-> "cw/key"]],
     time |-> "2024-12-01T11:00:00Z", region |-> "us-east-1"]
\* EventBridge event with source aws.s3
SourceTrigger ==
    [source |-> "aws.s3",
     detail |-> [eventName |-> "PutObject",
                 requestParameters |-> [bucketName |-> "eb-bucket", key |-> "eb/key"]],
     time |-> "2024-12-01T12:00:00Z", region |-> "us-east-1"]
\* src/test_lambda.py:138
InvalidTrigger == [invalid |-> "event"]
\* a payload that is a JSON array and not an object: it has no keys and no .get
ArrayTrigger == [json_array |-> <<>>]
\* a JSON string where an object is expected
StringRecord == [json_string |-> "not a record"]
IsDict(v) == DOMAIN v \cap {"json_array", "json_string"} = {}

(* ------------------ lambda/main.py: extract_s3_event ------------------- *)
HasPath2(d, a, b) == a \in DOMAIN d /\ b \in DOMAIN d[a]
HasPath3(d, a, b, c) == HasPath2(d, a, b) /\ c \in DOMAIN d[a][b]

\* lines 60-68: the subscripts raise KeyError when a key is missing
RecordEvent(record) ==
    IF /\ "eventName" \in DOMAIN record /\ HasPath3(record, "s3", "bucket", "name")
       /\ HasPath3(record, "s3", "object", "key") /\ "eventTime" \in DOMAIN record
       /\ "eventSource" \in DOMAIN record /\ "awsRegion" \in DOMAIN record
    THEN Return([eventName |-> record["eventName"],
                 bucketName |-> record["s3"]["bucket"]["name"],
                 objectKey |-> record["s3"]["object"]["key"],
                 eventTime |-> record["eventTime"],
                 eventSource |-> record["eventSource"],
                 awsRegion |-> record["awsRegion"],
                 rawEvent |-> record])
    ELSE Raise("KeyError")

\* mutant of ScanRecords: the last entry of the list is examined first
RECURSIVE ScanRecords_last_first(_)
ScanRecords_last_first(recs) ==
    IF recs = <<>> THEN Return(NoneDict)
    ELSE LET record == recs[Len(recs)]
         IN  IF ~IsDict(record) THEN Raise("AttributeError")
             ELSE IF Get(record, "eventSource", None) = "aws:s3" THEN RecordEvent(record)
             ELSE ScanRecords_last_first(SubSeq(recs, 1, Len(recs) - 1))

\* lines 58-68: the loop over event['Records']; it returns at the first entry whose
\* eventSource is 'aws:s3', record.get raises AttributeError on an entry that is
\* not an object, and the loop ends without a return when no entry matches
RECURSIVE ScanRecords(_)
ScanRecords(recs) ==
    IF recs = <<>> THEN Return(NoneDict)
    ELSE LET record == Head(recs)
         IN  IF ~IsDict(record) THEN Raise("AttributeError")
             ELSE IF Get(record, "eventSource", None) = "aws:s3" THEN RecordEvent(record)
             ELSE ScanRecords(Tail(recs))

extract_s3_event(event) ==
    IF "Records" \in DOMAIN event
    THEN LET r == ScanRecords(event["Records"])
         IN  IF r.raised THEN NoneDict ELSE r.value
    ELSE IF "detail-type" \in DOMAIN event /\ event["detail-type"] = "Object Created:Put"
    THEN LET detail == Get(event, "detail", EmptyDict)
         IN  [eventName |-> "ObjectCreated:Put",
              bucketName |-> Get(Get(detail, "bucket", EmptyDict), "name", None),
              objectKey |-> Get(Get(detail, "object", EmptyDict), "key", None),
              eventTime |-> Get(event, "time", None),
              eventSource |-> "aws:s3",
              awsRegion |-> Get(event, "region", None),
              rawEvent |-> event]
    ELSE IF "source" \in DOMAIN event /\ event["source"] = "aws.s3"
    THEN LET detail == Get(event, "detail", EmptyDict)
         IN  [eventName |-> Get(detail, "eventName", "Unknown"),
              bucketName |-> Get(Get(detail, "requestParameters", EmptyDict), "bucketName", None),
              objectKey |-> Get(Get(detail, "requestParameters", EmptyDict), "key", None),
              eventTime |-> Get(event, "time", None),
              eventSource |-> "aws.s3",
              awsRegion |-> Get(event, "region", None),
              rawEvent |-> event]
    ELSE NoneDict

(* --------------- payloads extract_s3_event is applied to --------------- *)
\* a second S3 record, and S3 records with a sub-field missing or empty
SecondS3Record ==
    [eventVersion |-> "2.1", eventSource |-> "aws:s3", awsRegion |-> "eu-west-1",
     eventTime |-> "2024-12-02T10:00:00.000Z", eventName |-> "ObjectRemoved:Delete",
     s3 |-> [bucket |-> [name |-> "second-bucket"], object |-> [key |-> "second/file.txt"]]]
NoBucketNameRecord == [S3Record EXCEPT !.s3 = [bucket |-> EmptyDict, object |-> [key |-> "test/file.txt"]]]
NoObjectKeyRecord == [S3Record EXCEPT !.s3 = [bucket |-> [name |-> "test-bucket"], object |-> EmptyDict]]
EmptyBucketNameRecord == [S3Record EXCEPT !.s3.bucket.name = ""]
NoSourceRecord == [body |-> "hello"]
\* one notification carrying two different S3 events
TwoEventTriggers ==
    {[Records |-> <<S3Record, SecondS3Record>>], [Records |-> <<SecondS3Record, S3Record>>]}
\* the triggers lambda_handler is invoked with
Triggers ==
    RecordTriggers \cup TwoEventTriggers
    \cup {DetailTypeTrigger, SourceTrigger, InvalidTrigger, ArrayTrigger}
ExtractRecordKinds ==
    {S3Record, SecondS3Record, OtherRecord, NoSourceRecord, NoBucketNameRecord,
     NoObjectKeyRecord, EmptyBucketNameRecord, StringRecord}

\* the detail object of a CloudWatch Events / EventBridge notification
FullDetail ==
    [bucket |-> [name |-> "cw-bucket"], object |-> [key |-> "cw/key"], eventName |-> "PutObject",
     requestParameters |-> [bucketName |-> "eb-bucket", key |-> "eb/key"]]

\* a payload object: which top-level keys it has and what they hold
MkPayload(hasRecords, recs, dt, src, det, timed) ==
    (IF hasRecords THEN "Records" :> recs ELSE EmptyDict) @@
    (IF dt = "absent" THEN EmptyDict ELSE "detail-type" :> dt) @@
    (IF src = "absent" THEN EmptyDict ELSE "source" :> src) @@
    (IF det = "absent" THEN EmptyDict
     ELSE "detail" :> (IF det = "full" THEN FullDetail ELSE EmptyDict)) @@
    (IF timed THEN [time |-> "2024-12-01T11:00:00Z", region |-> "us-east-1"] ELSE EmptyDict)

ExtractPayloads ==
    {MkPayload(hr, recs, dt, src, det, timed) :
        hr \in BOOLEAN, recs \in SeqsUpTo(ExtractRecordKinds, MaxRecords),
        dt \in {"absent", "Object Created:Put", "Object Deleted:Delete"},
        src \in {"absent", "aws.s3", "aws.ec2"},
        det \in {"absent", "empty", "full"}, timed \in BOOLEAN}
    \cup {InvalidTrigger, ArrayTrigger}

(* ------------------------- lambda/config.py ---------------------------- *)
DEFAULT_CONFIG ==
    [sqs_queues |-> <<[name |-> "s3-events-processing-queue",
                       url |-> "https://sqs.us-east-1.amazonaws.com/123456789012/s3-events-processing-queue",
                       arn |-> "arn:aws:sqs:us-east-1:123456789012:s3-events-processing-queue",
                       enabled |-> TRUE]>>,
     sns_topics |-> <<[name |-> "s3-events-notifications",
                       arn |-> "arn:aws:sns:us-east-1:123456789012:s3-events-notifications",
                       enabled |-> TRUE]>>]

\* a JSON text: one that parses to a value, or one that does not parse
Json(v) == [valid |-> TRUE, value |-> v]
BadJson == [valid |-> FALSE]
json_loads(text) == IF text.valid THEN Return(text.value) ELSE Raise("JSONDecodeError")

\* a path of the file system: no file, or a file holding a text
NoFile == [exists |-> FALSE]
File(text) == [exists |-> TRUE, text |-> text]

_ensure_structure(cfg) ==
    LET q == Get(cfg, "sqs_queues", <<>>)
        t == Get(cfg, "sns_topics", <<>>)
    IN  [k \in DOMAIN cfg \cup {"sqs_queues", "sns_topics"} |->
            IF k = "sqs_queues" THEN (IF IsList(q) THEN q ELSE <<>>)
            ELSE IF k = "sns_topics" THEN (IF IsList(t) THEN t ELSE <<>>)
            ELSE cfg[k]]

_load_from_env(env) ==
    IF "S3_FORWARDER_CONFIG" \in DOMAIN env
    THEN LET r == json_loads(env["S3_FORWARDER_CONFIG"])
         IN  IF r.raised THEN NoneDict ELSE r.value
    ELSE LET hasQ == "S3_FORWARDER_SQS_QUEUES" \in DOMAIN env
             hasT == "S3_FORWARDER_SNS_TOPICS" \in DOMAIN env
             rq == IF hasQ THEN json_loads(env["S3_FORWARDER_SQS_QUEUES"]) ELSE Return(<<>>)
             rt == IF hasT THEN json_loads(env["S3_FORWARDER_SNS_TOPICS"]) ELSE Return(<<>>)
         IN  IF rq.raised \/ rt.raised THEN NoneDict
             ELSE IF ~hasQ /\ ~hasT THEN NoneDict
             ELSE [k \in (IF hasQ THEN {"sqs_queues"} ELSE {}) \cup
                          (IF hasT THEN {"sns_topics"} ELSE {}) |->
                      IF k = "sqs_queues" THEN rq.value ELSE rt.value]

\* config_files is tried in order; a file that does not parse is logged and skipped
RECURSIVE _load_from_file(_)
_load_from_file(config_files) ==
    IF config_files = <<>> THEN NoneDict
    ELSE LET f == Head(config_files)
         IN  IF f.exists /\ f.text.valid THEN f.text.value
             ELSE _load_from_file(Tail(config_files))

\* `return _ensure_structure(config)` inside get_destinations_config's try block: on
\* a value that is not an object config.setdefault raises AttributeError, which the
\* `except Exception` clause (lines 53-55) answers with DEFAULT_CONFIG
EnsureOrDefault(c) == IF IsDict(c) THEN _ensure_structure(c) ELSE DEFAULT_CONFIG

get_destinations_config(env, config_files) ==
    LET fromEnv == _load_from_env(env)
        fromFile == _load_from_file(config_files)
    IN  IF DictTruthy(fromEnv) THEN EnsureOrDefault(fromEnv)
        ELSE IF DictTruthy(fromFile) THEN EnsureOrDefault(fromFile)
        ELSE DEFAULT_CONFIG

(* ---------------------- configured destinations ------------------------ *)
\* which keys a configured destination has, and its enabled flag
DestShapes ==
    [named : BOOLEAN, target : {"absent", "empty", "set"}, enabled : {"absent", "true", "false"}]

QueueNames == <<"queue1", "queue2", "queue3", "queue4">>
QueueUrls == <<"http://test1", "http://test2", "http://test3", "http://test4">>
TopicNames == <<"topic1", "topic2", "topic3", "topic4">>
TopicArns == <<"arn:test1", "arn:test2", "arn:test3", "arn:test4">>

EnabledField(sh) ==
    IF sh.enabled = "absent" THEN EmptyDict ELSE ("enabled" :> (sh.enabled = "true"))
MkQueue(sh, i) ==
    (IF sh.named THEN "name" :> QueueNames[i] ELSE EmptyDict) @@
    (IF sh.target = "absent" THEN EmptyDict
     ELSE "url" :> (IF sh.target = "set" THEN QueueUrls[i] ELSE "")) @@ EnabledField(sh)
MkTopic(sh, i) ==
    (IF sh.named THEN "name" :> TopicNames[i] ELSE EmptyDict) @@
    (IF sh.target = "absent" THEN EmptyDict
     ELSE "arn" :> (IF sh.target = "set" THEN TopicArns[i] ELSE "")) @@ EnabledField(sh)

QueueLists(n) == {[i \in 1..Len(shs) |-> MkQueue(shs[i], i)] : shs \in SeqsUpTo(DestShapes, n)}
TopicLists(n) == {[i \in 1..Len(shs) |-> MkTopic(shs[i], i)] : shs \in SeqsUpTo(DestShapes, n)}

\* the configuration of src/test_multiple_destinations.py:272-283: an enabled, a
\* disabled and a default-enabled (no enabled field) queue, and the same topics
TestEnabledConfig ==
    [sqs_queues |-> <<[name |-> "enabled-queue", url |-> "http://test1", enabled |-> TRUE],
                      [name |-> "disabled-queue", url |-> "http://test2", enabled |-> FALSE],
                      [name |-> "default-enabled-queue", url |-> "http://test3"]>>,
     sns_topics |-> <<[name |-> "enabled-topic", arn |-> "arn:test1", enabled |-> TRUE],
                      [name |-> "disabled-topic", arn |-> "arn:test2", enabled |-> FALSE],
                      [name |-> "default-enabled-topic", arn |-> "arn:test3"]>>]

Configs ==
    UNION {{[sqs_queues |-> qs, sns_topics |-> ts] :
                qs \in {l \in QueueLists(k) : Len(l) = k}, ts \in TopicLists(MaxDests - k)} :
           k \in 0..MaxDests}
    \cup {TestEnabledConfig}

\* what get_destinations_config finds in os.environ and at the config_files paths
NoFiles == <<NoFile, NoFile, NoFile>>
FileConfig ==
    [sqs_queues |-> <<[name |-> "file-queue", url |-> "http://file", enabled |-> TRUE]>>]
FileStates ==
    {NoFiles, <<File(Json(FileConfig)), NoFile, NoFile>>, <<File(BadJson), NoFile, NoFile>>,
     <<File(BadJson), File(Json(FileConfig)), NoFile>>, <<NoFile, File(Json(EmptyDict)), NoFile>>}
\* S3_FORWARDER_CONFIG holding a non-empty JSON array instead of an object
ArrayConfig == [json_array |-> <<1>>]
Environments ==
    {[environ |-> ("S3_FORWARDER_CONFIG" :> Json(c)), files |-> fs] :
        c \in Configs, fs \in {NoFiles, <<File(Json(FileConfig)), NoFile, NoFile>>}}
    \cup
    {[environ |-> e, files |-> fs] :
        e \in {EmptyDict, "S3_FORWARDER_CONFIG" :> BadJson, "S3_FORWARDER_CONFIG" :> Json(EmptyDict),
               "S3_FORWARDER_CONFIG" :> Json(ArrayConfig),
               "S3_FORWARDER_SQS_QUEUES" :> Json(<<MkQueue([named |-> TRUE, target |-> "set", enabled |-> "absent"], 1)>>),
               "S3_FORWARDER_SNS_TOPICS" :> BadJson},
        fs \in FileStates}

(* ---------------- destinations.py: DestinationForwarder ---------------- *)
\* the result dict of forward_to_sqs when send_message behaves as `out`
forward_to_sqs(s3ev, queue_config, out) ==
    LET queue_url == Get(queue_config, "url", None)
        queue_name == Get(queue_config, "name", "unknown")
    IN  IF ~Truthy(queue_url)
        THEN [success |-> FALSE, error |-> <<"Missing queue URL for", queue_name>>]
        ELSE IF out.kind = "ok" THEN [success |-> TRUE, message_id |-> MessageId]
        ELSE IF out.kind = "ClientError"
        THEN [success |-> FALSE, error |-> <<"Error forwarding to SQS queue", queue_name, out.code>>]
        ELSE [success |-> FALSE, error |-> <<"Unexpected error forwarding to SQS", out.kind>>]

\* lines 114-121: dict.get returns the default only when the key is absent
_get_sqs_attributes(s3ev) ==
    [EventType |-> [StringValue |-> Get(s3ev, "eventName", "Unknown"), DataType |-> "String"],
     BucketName |-> [StringValue |-> Get(s3ev, "bucketName", "Unknown"), DataType |-> "String"],
     ObjectKey |-> [StringValue |-> Get(s3ev, "objectKey", "Unknown"), DataType |-> "String"],
     EventTime |-> [StringValue |-> Get(s3ev, "eventTime", "Unknown"), DataType |-> "String"]]

\* lines 123-130
_get_sns_attributes(s3ev) ==
    [EventType |-> [StringValue |-> Get(s3ev, "eventName", "Unknown"), DataType |-> "String"],
     BucketName |-> [StringValue |-> Get(s3ev, "bucketName", "Unknown"), DataType |-> "String"],
     ObjectKey |-> [StringValue |-> Get(s3ev, "objectKey", "Unknown"), DataType |-> "String"],
     EventTime |-> [StringValue |-> Get(s3ev, "eventTime", "Unknown"), DataType |-> "String"]]

\* the send_message calls forward_to_sqs makes (lines 29-37), and what each call did
sqs_calls(s3ev, queue_config, out) ==
    IF ~Truthy(Get(queue_config, "url", None)) THEN <<>>
    ELSE <<[api |-> "sqs", target |-> queue_config["url"],
            destination_name |-> Get(queue_config, "name", None),
            attributes |-> _get_sqs_attributes(s3ev), raised |-> out]>>

forward_to_sns(s3ev, topic_config, out) ==
    LET topic_arn == Get(topic_config, "arn", None)
        topic_name == Get(topic_config, "name", "unknown")
    IN  IF ~Truthy(topic_arn)
        THEN [success |-> FALSE, error |-> <<"Missing topic ARN for", topic_name>>]
        ELSE IF out.kind = "ok" THEN [success |-> TRUE, message_id |-> MessageId]
        ELSE IF out.kind = "ClientError"
        THEN [success |-> FALSE, error |-> <<"Error forwarding to SNS topic", topic_name, out.code>>]
        ELSE [success |-> FALSE, error |-> <<"Unexpected error forwarding to SNS", out.kind>>]

\* the publish calls forward_to_sns makes (lines 57-66), and what each call did
sns_calls(s3ev, topic_config, out) ==
    IF ~Truthy(Get(topic_config, "arn", None)) THEN <<>>
    ELSE <<[api |-> "sns", target |-> topic_config["arn"],
            destination_name |-> Get(topic_config, "name", None),
            attributes |-> _get_sns_attributes(s3ev), raised |-> out]>>

(* ------------------------- lambda/main.py ------------------------------ *)
\* mutant of _add_result: a failed destination is appended but not counted
_add_result_failure_uncounted(res, dest_type, dest_name, result) ==
    IF result.success
    THEN [res EXCEPT !.total_processed = @ + 1,
                     !.successful = Append(@, [type |-> dest_type, destination |-> dest_name,
                                               message_id |-> Get(result, "message_id", None)])]
    ELSE [res EXCEPT !.failed = Append(@, [type |-> dest_type, destination |-> dest_name,
                                           error |-> Get(result, "error", None)])]

\* mutant of _add_result: the outcome is inserted at the head of its list
_add_result_prepends(res, dest_type, dest_name, result) ==
    IF result.success
    THEN [res EXCEPT !.total_processed = @ + 1,
                     !.successful = <<[type |-> dest_type, destination |-> dest_name,
                                       message_id |-> Get(result, "message_id", None)]>> \o @]
    ELSE [res EXCEPT !.total_processed = @ + 1,
                     !.failed = <<[type |-> dest_type, destination |-> dest_name,
                                   error |-> Get(result, "error", None)]>> \o @]

_add_result(res, dest_type, dest_name, result) ==
    IF result.success
    THEN [res EXCEPT !.total_processed = @ + 1,
                     !.successful = Append(@, [type |-> dest_type, destination |-> dest_name,
                                               message_id |-> Get(result, "message_id", None)])]
    ELSE [res EXCEPT !.total_processed = @ + 1,
                     !.failed = Append(@, [type |-> dest_type, destination |-> dest_name,
                                           error |-> Get(result, "error", None)])]

\* mutant of IsEnabled: the enabled flag is not consulted
IsEnabled_flag_ignored(dest_config) == TRUE

\* `if queue_config.get('enabled', True)` / `if topic_config.get('enabled', True)`
IsEnabled(dest_config) == Get(dest_config, "enabled", TRUE)

\* mutant of ExceptExceptionCatches: the clause is `except ClientError`
ExceptClientErrorCatches(exc) == exc = "ClientError"

\* `except Exception` catches every exception a step of the model raises
ExceptExceptionCatches(exc) == TRUE

(* ------------- lambda-tf: destinations.py DestinationManager ------------ *)
\* str.lower() on the type strings the configurations use
Lower(str) == CASE str = "SQS" -> "sqs" [] str = "SNS" -> "sns" [] OTHER -> str

TfShapes ==
    [named : BOOLEAN, arn : {"absent", "set"}, type : {"sqs", "SNS", "http"},
     enabled : {"absent", "true", "false"}]
TfNames == <<"dest1", "dest2", "dest3", "dest4">>
TfArns == <<"arn:aws:1", "arn:aws:2", "arn:aws:3", "arn:aws:4">>
MkTfDest(sh, i) ==
    (IF sh.named THEN "name" :> TfNames[i] ELSE EmptyDict) @@
    (IF sh.arn = "set" THEN "arn" :> TfArns[i] ELSE EmptyDict) @@
    ("type" :> sh.type) @@ EnabledField(sh)
TfLists(n) == {[i \in 1..Len(shs) |-> MkTfDest(shs[i], i)] : shs \in SeqsUpTo(TfShapes, n)}

\* what _load_destinations finds at destinations_file
TfFiles ==
    {NoFile, File(BadJson), File(Json(EmptyDict))} \cup
    {File(Json([destinations |-> l])) : l \in TfLists(MaxDests)}

\* `if dest.get('enabled', False)` (destinations.py:43)
TfIsEnabled(dest) == Get(dest, "enabled", FALSE)

_load_destinations(destinations_file) ==
    IF ~destinations_file.exists THEN <<>>                     \* FileNotFoundError
    ELSE LET r == json_loads(destinations_file.text)
         IN  IF r.raised THEN <<>>                             \* JSONDecodeError
             ELSE SelectSeq(Get(r.value, "destinations", <<>>), TfIsEnabled)

\* how the except clauses of _forward_to_destination (lines 188-231) classify a failed send
ClassifyError(dest_name, out) ==
    IF out.kind = "ClientError"
    THEN IF out.code \in {"AccessDenied", "UnauthorizedOperation"}
         THEN [destination |-> dest_name, success |-> FALSE,
               error |-> <<"Permission denied", out.code>>, error_code |-> out.code]
         ELSE IF out.code \in {"ResourceNotFoundException", "InvalidParameter"}
         THEN [destination |-> dest_name, success |-> FALSE,
               error |-> <<"Invalid destination", out.code>>, error_code |-> out.code]
         ELSE [destination |-> dest_name, success |-> FALSE,
               error |-> <<"AWS error", out.code>>, error_code |-> out.code]
    ELSE IF out.kind = "NoCredentialsError"
    THEN [destination |-> dest_name, success |-> FALSE,
          error |-> <<"No AWS credentials available">>]
    ELSE [destination |-> dest_name, success |-> FALSE,
          error |-> <<"Unexpected error", out.kind>>]

\* _forward_to_sqs / _forward_to_sns: the result on success, the raised error otherwise
_forward_to_sqs(destination, out) ==
    IF out.kind = "ok"
    THEN Return([destination |-> Get(destination, "name", "unknown"), success |-> TRUE,
                 message_id |-> MessageId, sqs_message_id |-> MessageId])
    ELSE Raise(out)
_forward_to_sns(destination, out) ==
    IF out.kind = "ok"
    THEN Return([destination |-> Get(destination, "name", "unknown"), success |-> TRUE,
                 message_id |-> MessageId, sns_message_id |-> MessageId])
    ELSE Raise(out)

\* mutant of _forward_to_destination: a type that is not 'sns' is sent as a queue
_forward_to_destination_default_sqs(destination, out) ==
    LET dest_name == Get(destination, "name", "unknown")
        dest_type == Lower(Get(destination, "type", ""))
        dest_arn == Get(destination, "arn", "")
    IN  IF ~Truthy(dest_arn)
        THEN [destination |-> dest_name, success |-> FALSE,
              error |-> <<"No ARN provided for destination">>]
        ELSE LET r == IF dest_type = "sns" THEN _forward_to_sns(destination, out)
                      ELSE _forward_to_sqs(destination, out)
             IN  IF r.raised THEN ClassifyError(dest_name, r.exc) ELSE r.value

_forward_to_destination(destination, out) ==
    LET dest_name == Get(destination, "name", "unknown")
        dest_type == Lower(Get(destination, "type", ""))
        dest_arn == Get(destination, "arn", "")
    IN  IF ~Truthy(dest_arn)
        THEN [destination |-> dest_name, success |-> FALSE,
              error |-> <<"No ARN provided for destination">>]
        ELSE IF dest_type \in {"sqs", "sns"}
        THEN LET r == IF dest_type = "sqs" THEN _forward_to_sqs(destination, out)
                      ELSE _forward_to_sns(destination, out)
             IN  IF r.raised THEN ClassifyError(dest_name, r.exc) ELSE r.value
        ELSE [destination |-> dest_name, success |-> FALSE,
              error |-> <<"Unsupported destination type", dest_type>>]

\* the send_message / publish calls _forward_to_destination makes
tf_calls(destination, out) ==
    LET dest_type == Lower(Get(destination, "type", ""))
        dest_arn == Get(destination, "arn", "")
    IN  IF Truthy(dest_arn) /\ dest_type \in {"sqs", "sns"}
        THEN <<[api |-> dest_type, target |-> dest_arn,
                destination_name |-> Get(destination, "name", "unknown"),
                attributes |-> [Source |-> [StringValue |-> "s3-event-forwarder", DataType |-> "String"],
                                EventType |-> [StringValue |-> "S3Event", DataType |-> "String"]],
                raised |-> out]>>
        ELSE <<>>

\* forward_event's loop body (lines 126-142) on the locals fw
ForwardEventStep(fw, destination, out) ==
    LET result == _forward_to_destination(destination, out)
    IN  IF result.success
        THEN [fw EXCEPT !.results = Append(@, result), !.success_count = @ + 1]
        ELSE [fw EXCEPT !.results = Append(@, result), !.error_count = @ + 1]

\* forward_event's return value (lines 113-119 and 144-152)
ForwardEventResult(dests, fw) ==
    IF dests = <<>>
    THEN [success |-> TRUE, message |-> <<"No destinations to forward to">>, results |-> <<>>]
    ELSE [success |-> (fw.error_count = 0),
          message |-> <<"Forwarded to", fw.success_count, fw.error_count>>,
          results |-> fw.results]

\* get_enabled_destinations_list (lines 86-101)
RECURSIVE get_enabled_destinations_list(_)
get_enabled_destinations_list(dests) ==
    IF dests = <<>> THEN <<>>
    ELSE <<[name |-> Get(Head(dests), "name", "unknown"),
            type |-> Get(Head(dests), "type", "unknown"),
            arn |-> Get(Head(dests), "arn", "no-arn"),
            description |-> Get(Head(dests), "description", "No description")]>>
         \o get_enabled_destinations_list(Tail(dests))

\* mutant of ValidationError: the type is compared without .lower()
ValidationError_case_sensitive(dest) ==
    LET dest_name == Get(dest, "name", "unknown")
        dest_arn == Get(dest, "arn", "")
    IN  IF ~Truthy(dest_arn) THEN <<<<"has no ARN", dest_name>>>>
        ELSE IF Get(dest, "type", "") \notin {"sqs", "sns"}
        THEN <<<<"has unsupported type", dest_name, Get(dest, "type", None)>>>>
        ELSE <<>>

\* verify_destinations' loop body (lines 388-394): the errors appended for one destination
ValidationError(dest) ==
    LET dest_name == Get(dest, "name", "unknown")
        dest_arn == Get(dest, "arn", "")
    IN  IF ~Truthy(dest_arn) THEN <<<<"has no ARN", dest_name>>>>
        ELSE IF Lower(Get(dest, "type", "")) \notin {"sqs", "sns"}
        THEN <<<<"has unsupported type", dest_name, Get(dest, "type", None)>>>>
        ELSE <<>>

RECURSIVE validation_errors(_)
validation_errors(dests) ==
    IF dests = <<>> THEN <<>>
    ELSE ValidationError(Head(dests)) \o validation_errors(Tail(dests))

\* verify_destinations (lines 362-400) on self.destinations
verify_destinations(dests) ==
    LET errors == validation_errors(dests)
        types == {Get(dests[j], "type", "unknown") : j \in 1..Len(dests)}
    IN  [total_destinations_loaded |-> Len(dests),
         enabled_destinations |-> get_enabled_destinations_list(dests),
         destination_types |->
            [t \in types |->
                Cardinality({j \in 1..Len(dests) : Get(dests[j], "type", "unknown") = t})],
         verification_status |-> IF errors # <<>> THEN "warning" ELSE "success"]
        @@ (IF errors # <<>> THEN [validation_errors |-> errors] ELSE EmptyDict)

(* ------------------------------- state --------------------------------- *)
VARIABLES
    variant,      \* which handler this process runs: "lambda" or "lambda-tf"
    pc,           \* position of the invocation
    event,        \* the trigger payload lambda_handler was called with
    environ,      \* lambda: os.environ as read by get_destinations_config (NoneDict: not read)
    files,        \* lambda: the config_files paths as read (<<>>: not read)
    s3_event,     \* lambda: extract_s3_event's result
    config,       \* lambda: get_destinations_config's result (NoneDict: not loaded)
    qi, ti,       \* lambda: next index of the queue loop and of the topic loop
    results,      \* lambda: forward_to_destinations' results dict
    sends,        \* the calls made to send_message / publish, in order
    dispatch_exc, \* the exception that left the dispatcher, or None
    escaped,      \* the exception that left lambda_handler, or None
    response,     \* lambda_handler's return value (EmptyDict until it returns)
    destfile,     \* lambda-tf: destinations.json as read by _load_destinations
    destinations, \* lambda-tf: DestinationManager.destinations
    ri, di,       \* lambda-tf: next index of the record loop and of the destination loop
    fwd,          \* lambda-tf: forward_event's results, success_count, error_count
    ret,          \* return value of an operation called directly, as the test scripts do
                  \* (verify_destinations, _ensure_structure); NoneDict until it returns
    served,       \* number of invocations this process has completed before the current one
    tf            \* lambda-tf: lambda_handler's results, success_count, error_count

lambdaVars == <<environ, files, s3_event, config, qi, ti, results>>
tfVars == <<destfile, destinations, ri, di, fwd, tf>>
processVars == <<ret, served>>
vars == <<variant, pc, event, environ, files, s3_event, config, qi, ti, results,
          sends, dispatch_exc, escaped, response, destfile, destinations, ri, di, fwd, tf,
          ret, served>>

\* the trigger of src/test_lambda.py:96-110
StandardTrigger == [Records |-> <<S3Record>>]

\* all environments are explored with the standard trigger, a few with the others
SmallEnvironments ==
    {e \in Environments :
        /\ e.files = NoFiles
        /\ "S3_FORWARDER_CONFIG" \in DOMAIN e.environ
        /\ e.environ["S3_FORWARDER_CONFIG"] \in {BadJson, Json(TestEnabledConfig)}}
\* a trigger of a later invocation of the same process, and what it finds
RepeatTrigger == [Records |-> <<SecondS3Record>>]
RepeatTriggers == {RepeatTrigger, InvalidTrigger}
RepeatEnvironments ==
    {[environ |-> EmptyDict, files |-> fs] :
        fs \in {NoFiles, <<File(Json(FileConfig)), NoFile, NoFile>>}}
EnvironmentsFor(ev) ==
    IF ev = StandardTrigger THEN Environments
    ELSE IF ev = RepeatTrigger THEN RepeatEnvironments
    ELSE SmallEnvironments

\* lambda-tf: all destination files are explored with the standard trigger, a few with the others
SmallTfFiles ==
    {NoFile,
     File(Json([destinations |->
        <<MkTfDest([named |-> TRUE, arn |-> "set", type |-> "sqs", enabled |-> "true"], 1),
          MkTfDest([named |-> TRUE, arn |-> "set", type |-> "SNS", enabled |-> "true"], 2)>>])),
     File(Json([destinations |->
        <<MkTfDest([named |-> TRUE, arn |-> "absent", type |-> "sqs", enabled |-> "true"], 1)>>]))}
TfFilesFor(ev) == IF ev = StandardTrigger THEN TfFiles ELSE SmallTfFiles

\* the destinations.json of two enabled destinations, a queue and a topic
TwoDestinationsFile ==
    File(Json([destinations |->
        <<MkTfDest([named |-> TRUE, arn |-> "set", type |-> "sqs", enabled |-> "true"], 1),
          MkTfDest([named |-> TRUE, arn |-> "set", type |-> "SNS", enabled |-> "true"], 2)>>]))
\* every class of send error is explored with the standard trigger and the default
\* configuration (lambda) or the two-destination file (lambda-tf), a few with the others
SendOutcomesFor(ev, cfg) ==
    IF ev = StandardTrigger /\ cfg \in {DEFAULT_CONFIG, TwoDestinationsFile}
    THEN AllSendOutcomes ELSE SendOutcomes

EmptyResults == [successful |-> <<>>, failed |-> <<>>, total_processed |-> 0]
EmptyCounts == [results |-> <<>>, success_count |-> 0, error_count |-> 0]

Init ==
    /\ variant \in {"lambda", "lambda-tf"}
    /\ event \in Triggers
    /\ pc = "start"
    /\ environ = NoneDict /\ files = <<>>
    /\ s3_event = NoneDict /\ config = NoneDict
    /\ qi = 0 /\ ti = 0
    /\ results = EmptyResults
    /\ sends = <<>>
    /\ dispatch_exc = None /\ escaped = None
    /\ response = EmptyDict
    /\ destfile = NoneDict /\ destinations = <<>>
    /\ ri = 0 /\ di = 0
    /\ fwd = EmptyCounts /\ tf = EmptyCounts
    /\ ret = NoneDict /\ served = 0

\* mutant of NoValidEvent: the check of extract_s3_event's result is missing
NoValidEvent_unchecked(ev) == FALSE

\* `if not s3_event` (main.py:27)
NoValidEvent(ev) == ~DictTruthy(ev)

\* lambda_handler's `except Exception` clause (main.py:49-51) for an exception exc
\* raised inside its try block
HandlerExcept(exc) ==
    IF ExceptExceptionCatches(exc)
    THEN /\ response' = [statusCode |-> 500, body |-> [error |-> exc]]
         /\ escaped' = escaped
    ELSE /\ response' = response
         /\ escaped' = exc

\* mutant of NewResults: the report is a module-level object that is never reset
NewResults_module_level == results

\* forward_to_destinations' own report (main.py:105)
NewResults == EmptyResults

\* main.py:20-35 and 105: normalise the trigger, load the configuration
LambdaBegin ==
    /\ variant = "lambda" /\ pc = "start"
    /\ LET ev == extract_s3_event(event)
       IN  /\ s3_event' = ev
           /\ IF NoValidEvent(ev)
              THEN /\ response' = [statusCode |-> 400,
                                    body |-> [error |-> "No valid S3 event found"]]
                   /\ pc' = "done"
                   /\ UNCHANGED <<environ, files, config, qi, results>>
              ELSE \E e \in EnvironmentsFor(event) :
                     LET cfg == get_destinations_config(e.environ, e.files)
                     IN  /\ environ' = e.environ /\ files' = e.files
                         /\ config' = cfg
                         /\ IF ~DictTruthy(cfg)
                            THEN /\ response' = [statusCode |-> 500,
                                        body |-> [error |-> "Failed to load configuration"]]
                                 /\ pc' = "done" /\ qi' = qi
                                 /\ results' = results
                            ELSE /\ response' = response
                                 /\ pc' = "queues" /\ qi' = 1
                                 /\ results' = NewResults
    /\ UNCHANGED tfVars
    /\ UNCHANGED <<variant, event, ti, sends, dispatch_exc, escaped>>
    /\ UNCHANGED processVars

\* main.py:110-116: one iteration of the queue loop
LambdaQueue ==
    /\ variant = "lambda" /\ pc = "queues"
    /\ qi <= Len(Get(config, "sqs_queues", <<>>))
    /\ LET queue_config == config["sqs_queues"][qi]
       IN  IF IsEnabled(queue_config)
           THEN \E out \in SendOutcomesFor(event, config) :
                  LET result == forward_to_sqs(s3_event, queue_config, out)
                  IN  /\ sends' = sends \o sqs_calls(s3_event, queue_config, out)
                      /\ IF "name" \in DOMAIN queue_config
                         THEN /\ results' = _add_result(results, "sqs", queue_config["name"], result)
                              /\ qi' = qi + 1
                              /\ UNCHANGED <<pc, dispatch_exc, escaped, response>>
                         ELSE \* queue_config['name'] raises KeyError (line 114)
                              /\ dispatch_exc' = "KeyError"
                              /\ HandlerExcept("KeyError")
                              /\ pc' = "done"
                              /\ UNCHANGED <<results, qi>>
           ELSE /\ qi' = qi + 1
                /\ UNCHANGED <<pc, results, sends, dispatch_exc, escaped, response>>
    /\ UNCHANGED tfVars
    /\ UNCHANGED <<variant, event, environ, files, s3_event, config, ti>>
    /\ UNCHANGED processVars

\* main.py:117-122: the queue loop is over (or there are no queues)
LambdaQueuesDone ==
    /\ variant = "lambda" /\ pc = "queues"
    /\ qi > Len(Get(config, "sqs_queues", <<>>))
    /\ pc' = "topics" /\ ti' = 1
    /\ UNCHANGED <<variant, event, environ, files, s3_event, config, qi, results, sends,
                   dispatch_exc, escaped, response>>
    /\ UNCHANGED tfVars
    /\ UNCHANGED processVars

\* main.py:123-129: one iteration of the topic loop
LambdaTopic ==
    /\ variant = "lambda" /\ pc = "topics"
    /\ ti <= Len(Get(config, "sns_topics", <<>>))
    /\ LET topic_config == config["sns_topics"][ti]
       IN  IF IsEnabled(topic_config)
           THEN \E out \in SendOutcomesFor(event, config) :
                  LET result == forward_to_sns(s3_event, topic_config, out)
                  IN  /\ sends' = sends \o sns_calls(s3_event, topic_config, out)
                      /\ IF "name" \in DOMAIN topic_config
                         THEN /\ results' = _add_result(results, "sns", topic_config["name"], result)
                              /\ ti' = ti + 1
                              /\ UNCHANGED <<pc, dispatch_exc, escaped, response>>
                         ELSE \* topic_config['name'] raises KeyError (line 127)
                              /\ dispatch_exc' = "KeyError"
                              /\ HandlerExcept("KeyError")
                              /\ pc' = "done"
                              /\ UNCHANGED <<results, ti>>
           ELSE /\ ti' = ti + 1
                /\ UNCHANGED <<pc, results, sends, dispatch_exc, escaped, response>>
    /\ UNCHANGED tfVars
    /\ UNCHANGED <<variant, event, environ, files, s3_event, config, qi>>
    /\ UNCHANGED processVars

\* main.py:130-134 and 40-47: forward_to_destinations returns, the response is built
LambdaReturn ==
    /\ variant = "lambda" /\ pc = "topics"
    /\ ti > Len(Get(config, "sns_topics", <<>>))
    /\ response' = [statusCode |-> 200,
                     body |-> [message |-> "S3 event forwarded successfully",
                               results |-> results, event |-> s3_event]]
    /\ pc' = "done"
    /\ UNCHANGED <<variant, event, environ, files, s3_event, config, qi, ti, results, sends,
                   dispatch_exc, escaped>>
    /\ UNCHANGED tfVars
    /\ UNCHANGED processVars

\* lambda-tf lambda_handler's `except Exception` clause (main.py:110-119)
TfHandlerExcept(exc) ==
    IF ExceptExceptionCatches(exc)
    THEN /\ response' = [statusCode |-> 500,
                          body |-> [success |-> FALSE, error |-> exc,
                                    message |-> "Internal server error"]]
         /\ escaped' = escaped
    ELSE /\ response' = response
         /\ escaped' = exc

\* the Records list the lambda-tf handler iterates: event.get('Records', [])
TfRecords == Get(event, "Records", <<>>)

\* lambda-tf main.py:22-49: construct the DestinationManager, start the record loop
TfBegin ==
    /\ variant = "lambda-tf" /\ pc = "start"
    /\ \E f \in TfFilesFor(event) :
         /\ destfile' = f
         /\ destinations' = _load_destinations(f)
    /\ tf' = EmptyCounts
    /\ IF IsDict(event)
       THEN /\ ri' = 1 /\ pc' = "records"
            /\ UNCHANGED <<escaped, response>>
       ELSE \* event.get raises AttributeError (line 51)
            /\ TfHandlerExcept("AttributeError")
            /\ pc' = "done" /\ ri' = ri
    /\ dispatch_exc' = dispatch_exc
    /\ UNCHANGED <<di, fwd>>
    /\ UNCHANGED lambdaVars
    /\ UNCHANGED <<variant, event, sends>>
    /\ UNCHANGED processVars

\* what main.py:63-77 does with forward_event's return value
TfRecordResult(h, record, forwarding_result) ==
    LET entry == [record |-> [event_name |-> Get(record, "eventName", "unknown"),
                              bucket |-> Get(Get(Get(record, "s3", EmptyDict), "bucket", EmptyDict),
                                             "name", "unknown"),
                              key |-> Get(Get(Get(record, "s3", EmptyDict), "object", EmptyDict),
                                          "key", "unknown")],
                  forwarding_result |-> forwarding_result]
    IN  IF forwarding_result.success
        THEN [h EXCEPT !.results = Append(@, entry), !.success_count = @ + 1]
        ELSE [h EXCEPT !.results = Append(@, entry), !.error_count = @ + 1]

\* mutant of TfRecordError: the record that raised is listed but not counted
TfRecordError_uncounted(h, record, exc) ==
    [h EXCEPT !.results = Append(@, [record |-> record, error |-> exc])]

\* main.py:79-85: the per-record `except Exception` clause
TfRecordError(h, record, exc) ==
    [h EXCEPT !.results = Append(@, [record |-> record, error |-> exc]),
              !.error_count = @ + 1]

\* main.py:51-62 and destinations.py:113-123: forward_event is entered for record ri;
\* record.get raises AttributeError on a record that is not an object (line 54)
TfRecordBegin ==
    /\ variant = "lambda-tf" /\ pc = "records"
    /\ ri <= Len(TfRecords)
    /\ IF ~IsDict(TfRecords[ri])
       THEN /\ tf' = TfRecordError(tf, TfRecords[ri], "AttributeError")
            /\ ri' = ri + 1
            /\ UNCHANGED <<pc, di, fwd>>
       ELSE IF destinations = <<>>
       THEN /\ tf' = TfRecordResult(tf, TfRecords[ri], ForwardEventResult(destinations, fwd))
            /\ ri' = ri + 1
            /\ UNCHANGED <<pc, di, fwd>>
       ELSE /\ fwd' = EmptyCounts
            /\ di' = 1 /\ pc' = "forward"
            /\ UNCHANGED <<tf, ri>>
    /\ UNCHANGED <<destfile, destinations>>
    /\ UNCHANGED lambdaVars
    /\ UNCHANGED <<variant, event, sends, dispatch_exc, escaped, response>>
    /\ UNCHANGED processVars

\* destinations.py:125-142: one iteration of forward_event's destination loop
TfForward ==
    /\ variant = "lambda-tf" /\ pc = "forward"
    /\ di <= Len(destinations)
    /\ \E out \in SendOutcomesFor(event, destfile) :
         /\ fwd' = ForwardEventStep(fwd, destinations[di], out)
         /\ sends' = sends \o tf_calls(destinations[di], out)
    /\ di' = di + 1
    /\ UNCHANGED <<destfile, destinations, ri, tf>>
    /\ UNCHANGED lambdaVars
    /\ UNCHANGED <<variant, pc, event, dispatch_exc, escaped, response>>
    /\ UNCHANGED processVars

\* destinations.py:144-152 and main.py:63-77: forward_event returns, the record is counted
TfRecordEnd ==
    /\ variant = "lambda-tf" /\ pc = "forward"
    /\ di > Len(destinations)
    /\ tf' = TfRecordResult(tf, TfRecords[ri], ForwardEventResult(destinations, fwd))
    /\ ri' = ri + 1 /\ pc' = "records"
    /\ UNCHANGED <<destfile, destinations, di, fwd>>
    /\ UNCHANGED lambdaVars
    /\ UNCHANGED <<variant, event, sends, dispatch_exc, escaped, response>>
    /\ UNCHANGED processVars

\* main.py:87-108: the response
TfResponse(h, nrecords) ==
    [statusCode |-> IF h.error_count = 0 THEN 200 ELSE 500,
     body |-> [success |-> (h.error_count = 0),
               message |-> <<"Processed", nrecords, h.success_count, h.error_count>>,
               results |-> h.results]]

TfReturn ==
    /\ variant = "lambda-tf" /\ pc = "records"
    /\ ri > Len(TfRecords)
    /\ response' = TfResponse(tf, Len(TfRecords))
    /\ pc' = "done"
    /\ UNCHANGED tfVars
    /\ UNCHANGED lambdaVars
    /\ UNCHANGED <<variant, event, sends, dispatch_exc, escaped>>
    /\ UNCHANGED processVars

Next ==
    \/ LambdaBegin
    \/ LambdaQueue
    \/ LambdaQueuesDone
    \/ LambdaTopic
    \/ LambdaReturn
    \/ TfBegin
    \/ TfRecordBegin
    \/ TfForward
    \/ TfRecordEnd
    \/ TfReturn

Spec == Init /\ [][Next]_vars

(* ------------- extract_s3_event applied to every payload --------------- *)
InitExtract ==
    /\ variant = "lambda"
    /\ event \in ExtractPayloads
    /\ pc = "extract"
    /\ environ = NoneDict /\ files = <<>>
    /\ s3_event = NoneDict /\ config = NoneDict
    /\ qi = 0 /\ ti = 0
    /\ results = EmptyResults
    /\ sends = <<>>
    /\ dispatch_exc = None /\ escaped = None
    /\ response = EmptyDict
    /\ destfile = NoneDict /\ destinations = <<>>
    /\ ri = 0 /\ di = 0
    /\ fwd = EmptyCounts /\ tf = EmptyCounts
    /\ ret = NoneDict /\ served = 0

\* main.py:26: s3_event = extract_s3_event(event)
ExtractStep ==
    /\ pc = "extract"
    /\ s3_event' = extract_s3_event(event)
    /\ pc' = "extracted"
    /\ UNCHANGED <<variant, event, environ, files, config, qi, ti, results, sends,
                   dispatch_exc, escaped, response>>
    /\ UNCHANGED tfVars
    /\ UNCHANGED processVars

\* main.py:37 with the default configuration: the returned event is sent to the
\* default queue and to the default topic
ExtractSend ==
    /\ pc = "extracted" /\ ~NoValidEvent(s3_event)
    /\ \E out \in SendOutcomes :
         sends' = sqs_calls(s3_event, DEFAULT_CONFIG["sqs_queues"][1], out)
                    \o sns_calls(s3_event, DEFAULT_CONFIG["sns_topics"][1], out)
    /\ pc' = "sent"
    /\ UNCHANGED <<variant, event, environ, files, s3_event, config, qi, ti, results,
                   dispatch_exc, escaped, response>>
    /\ UNCHANGED tfVars
    /\ UNCHANGED processVars

NextExtract == ExtractStep \/ ExtractSend

SpecExtract == InitExtract /\ [][NextExtract]_vars

(* ------- lambda-tf invoked with record lists, some entries malformed ---- *)
\* Records lists in which an entry is a JSON string and not an object
MalformedTriggers ==
    {[Records |-> <<StringRecord, S3Record>>], [Records |-> <<S3Record, StringRecord>>],
     [Records |-> <<StringRecord>>]}
RecordListTriggers == TwoEventTriggers \cup MalformedTriggers \cup {[Records |-> <<>>]}

InitRecords ==
    /\ variant = "lambda-tf"
    /\ event \in RecordListTriggers
    /\ pc = "start"
    /\ environ = NoneDict /\ files = <<>>
    /\ s3_event = NoneDict /\ config = NoneDict
    /\ qi = 0 /\ ti = 0
    /\ results = EmptyResults
    /\ sends = <<>>
    /\ dispatch_exc = None /\ escaped = None
    /\ response = EmptyDict
    /\ destfile = NoneDict /\ destinations = <<>>
    /\ ri = 0 /\ di = 0
    /\ fwd = EmptyCounts /\ tf = EmptyCounts
    /\ ret = NoneDict /\ served = 0

NextRecords ==
    \/ TfBegin
    \/ TfRecordBegin
    \/ TfForward
    \/ TfRecordEnd
    \/ TfReturn

SpecRecords == InitRecords /\ [][NextRecords]_vars

(* --------------- several invocations served by one process ------------- *)
InitRepeat ==
    /\ variant \in {"lambda", "lambda-tf"}
    /\ event \in RepeatTriggers
    /\ pc = "start"
    /\ environ = NoneDict /\ files = <<>>
    /\ s3_event = NoneDict /\ config = NoneDict
    /\ qi = 0 /\ ti = 0
    /\ results = EmptyResults
    /\ sends = <<>>
    /\ dispatch_exc = None /\ escaped = None
    /\ response = EmptyDict
    /\ destfile = NoneDict /\ destinations = <<>>
    /\ ri = 0 /\ di = 0
    /\ fwd = EmptyCounts /\ tf = EmptyCounts
    /\ ret = NoneDict /\ served = 0

\* the runtime calls lambda_handler again in the same process: the module-level
\* objects are the same, the handler's locals are whatever its code assigns; the
\* log of sends and the response are those of the new invocation
Reinvoke ==
    /\ pc = "done"
    /\ served + 1 < MaxInvocations
    /\ served' = served + 1
    /\ event' \in RepeatTriggers
    /\ pc' = "start"
    /\ sends' = <<>>
    /\ dispatch_exc' = None /\ escaped' = None
    /\ response' = EmptyDict
    /\ UNCHANGED <<variant, environ, files, s3_event, config, qi, ti, results, ret>>
    /\ UNCHANGED tfVars

NextRepeat == Next \/ Reinvoke

SpecRepeat == InitRepeat /\ [][NextRepeat]_vars

(* ------------------- _ensure_structure called directly ----------------- *)
\* the values a configuration mapping may hold under sqs_queues / sns_topics
EnsureQueueValues ==
    {NonList("null"), NonList("a string"), <<>>, TestEnabledConfig["sqs_queues"],
     <<MkQueue([named |-> TRUE, target |-> "set", enabled |-> "false"], 1),
       MkQueue([named |-> TRUE, target |-> "set", enabled |-> "true"], 2)>>,
     <<MkQueue([named |-> FALSE, target |-> "absent", enabled |-> "absent"], 1)>>}
EnsureTopicValues ==
    {NonList("null"), NonList("a string"), <<>>, TestEnabledConfig["sns_topics"],
     <<MkTopic([named |-> TRUE, target |-> "set", enabled |-> "false"], 1),
       MkTopic([named |-> TRUE, target |-> "set", enabled |-> "true"], 2)>>,
     <<MkTopic([named |-> FALSE, target |-> "empty", enabled |-> "true"], 1)>>}
EnsureOtherKeys == {EmptyDict, [version |-> "1.0"], [version |-> "1.0", region |-> "us-east-1"]}
EnsureInputs ==
    {q @@ t @@ o :
        q \in {EmptyDict} \cup {[sqs_queues |-> v] : v \in EnsureQueueValues},
        t \in {EmptyDict} \cup {[sns_topics |-> v] : v \in EnsureTopicValues},
        o \in EnsureOtherKeys}

InitEnsure ==
    /\ variant = "lambda"
    /\ event = StandardTrigger
    /\ pc = "ensure"
    /\ environ = NoneDict /\ files = <<>>
    /\ s3_event = NoneDict
    /\ config \in EnsureInputs
    /\ qi = 0 /\ ti = 0
    /\ results = EmptyResults
    /\ sends = <<>>
    /\ dispatch_exc = None /\ escaped = None
    /\ response = EmptyDict
    /\ destfile = NoneDict /\ destinations = <<>>
    /\ ri = 0 /\ di = 0
    /\ fwd = EmptyCounts /\ tf = EmptyCounts
    /\ ret = NoneDict /\ served = 0

\* config.py:57-69: _ensure_structure(config); the argument is copied, not changed
EnsureStep ==
    /\ pc = "ensure"
    /\ ret' = _ensure_structure(config)
    /\ pc' = "ensured"
    /\ UNCHANGED <<variant, event, environ, files, s3_event, config, qi, ti, results, sends,
                   dispatch_exc, escaped, response, served>>
    /\ UNCHANGED tfVars

NextEnsure == EnsureStep

SpecEnsure == InitEnsure /\ [][NextEnsure]_vars

(* ---- DestinationManager used directly: construct, verify, forward ------ *)
\* test_destinations.py:22 and 32, followed by the forwarding of the trigger's
\* records as lambda_handler does it (main.py:46-108)
InitVerify ==
    /\ variant = "lambda-tf"
    /\ event = StandardTrigger
    /\ pc = "construct"
    /\ environ = NoneDict /\ files = <<>>
    /\ s3_event = NoneDict /\ config = NoneDict
    /\ qi = 0 /\ ti = 0
    /\ results = EmptyResults
    /\ sends = <<>>
    /\ dispatch_exc = None /\ escaped = None
    /\ response = EmptyDict
    /\ destfile = NoneDict /\ destinations = <<>>
    /\ ri = 0 /\ di = 0
    /\ fwd = EmptyCounts /\ tf = EmptyCounts
    /\ ret = NoneDict /\ served = 0

\* destinations.py:16-26: DestinationManager()
VerifyConstruct ==
    /\ variant = "lambda-tf" /\ pc = "construct"
    /\ \E f \in TfFiles :
         /\ destfile' = f
         /\ destinations' = _load_destinations(f)
    /\ pc' = "verify"
    /\ UNCHANGED <<ri, di, fwd, tf, ret, served>>
    /\ UNCHANGED lambdaVars
    /\ UNCHANGED <<variant, event, sends, dispatch_exc, escaped, response>>

\* destinations.py:362-400: verify_destinations(); the record loop follows
VerifyStep ==
    /\ variant = "lambda-tf" /\ pc = "verify"
    /\ ret' = verify_destinations(destinations)
    /\ tf' = EmptyCounts
    /\ ri' = 1 /\ pc' = "records"
    /\ UNCHANGED <<destfile, destinations, di, fwd, served>>
    /\ UNCHANGED lambdaVars
    /\ UNCHANGED <<variant, event, sends, dispatch_exc, escaped, response>>

NextVerify ==
    \/ VerifyConstruct
    \/ VerifyStep
    \/ TfRecordBegin
    \/ TfForward
    \/ TfRecordEnd
    \/ TfReturn

SpecVerify == InitVerify /\ [][NextVerify]_vars

(* ============================== claims ================================= *)
\* the number of indices i <= n of the list l whose entry satisfies P
CountUpTo(l, n, P(_)) == Cardinality({i \in 1..n : i <= Len(l) /\ P(l[i])})
Count(l, P(_)) == CountUpTo(l, Len(l), P)

\* the enabled flag as the specification reads it: enabled unless the flag is false
FlagFalse(d) == "enabled" \in DOMAIN d /\ d["enabled"] = FALSE
FlagNotFalse(d) == ~FlagFalse(d)
FlagAbsent(d) == "enabled" \notin DOMAIN d

\* lambda: the configured lists once the configuration is loaded
Loaded == variant = "lambda" /\ DictTruthy(config)
Queues == IF Loaded THEN config["sqs_queues"] ELSE <<>>
Topics == IF Loaded THEN config["sns_topics"] ELSE <<>>
Outcomes == results.successful \o results.failed
\* lambda-tf: the destinations destinations.json lists, enabled or not
TfRead == variant = "lambda-tf" /\ ~IsNone(destfile)
TfConfigured ==
    IF TfRead /\ destfile.exists /\ destfile.text.valid
    THEN Get(destfile.text.value, "destinations", <<>>) ELSE <<>>
\* lambda-tf: the per-destination outcomes of the records forwarded so far
TfOutcomeLists == {tf.results[r].forwarding_result.results : r \in 1..Len(tf.results)}

\* lambda_handler has returned a response
Responded == pc = "done" /\ "statusCode" \in DOMAIN response

\* C1: no failure at an enabled destination leaves the dispatcher as an exception,
\* and when the invocation has ended every enabled destination of the loaded
\* configuration has been attempted and has its outcome recorded.
C1_FailureIsolated ==
    /\ dispatch_exc = None
    /\ (Loaded /\ pc = "done") =>
          Len(Outcomes) = Count(Queues, FlagNotFalse) + Count(Topics, FlagNotFalse)
    /\ (variant = "lambda-tf" /\ pc = "done") =>
          \A l \in TfOutcomeLists : Len(l) = Len(destinations)

\* C2: dispatching one event over N enabled destinations produces exactly N
\* outcomes, one per enabled destination, each carrying that destination's name
\* (the name "unknown" for a destination configured without one).
C2_OneOutcomePerEnabledDestination ==
    /\ (Loaded /\ pc = "done") =>
          /\ Len(Outcomes) = Count(Queues, FlagNotFalse) + Count(Topics, FlagNotFalse)
          /\ \A i \in 1..Len(Queues) : FlagNotFalse(Queues[i]) =>
                \E k \in 1..Len(Outcomes) :
                    /\ Outcomes[k].type = "sqs"
                    /\ Outcomes[k].destination = Get(Queues[i], "name", "unknown")
          /\ \A i \in 1..Len(Topics) : FlagNotFalse(Topics[i]) =>
                \E k \in 1..Len(Outcomes) :
                    /\ Outcomes[k].type = "sns"
                    /\ Outcomes[k].destination = Get(Topics[i], "name", "unknown")
    /\ (variant = "lambda-tf") =>
          \A l \in TfOutcomeLists :
              /\ Len(l) = Len(destinations)
              /\ \A j \in 1..Len(l) :
                    l[j].destination = Get(destinations[j], "name", "unknown")

\* targets and names of the configured destinations whose enabled flag is false
TargetsOf(l, key, P(_)) == {l[i][key] : i \in {j \in 1..Len(l) : key \in DOMAIN l[j] /\ P(l[j])}}
DisabledTargets ==
    TargetsOf(Queues, "url", FlagFalse) \cup TargetsOf(Topics, "arn", FlagFalse)
    \cup TargetsOf(TfConfigured, "arn", FlagFalse)
DisabledQueueNames == TargetsOf(Queues, "name", FlagFalse)
DisabledTopicNames == TargetsOf(Topics, "name", FlagFalse)
DisabledTfNames == TargetsOf(TfConfigured, "name", FlagFalse)

\* C3: a destination whose enabled flag is false is never attempted: no send goes
\* to its target, no outcome carries its name, and it is not counted in
\* total_processed (which ends as the number of destinations not disabled: 4 for
\* the configuration with 2 enabled + 1 disabled queues and topics).
C3_DisabledNeverAttempted ==
    /\ \A k \in 1..Len(sends) : sends[k].target \notin DisabledTargets
    /\ variant = "lambda" =>
          /\ \A k \in 1..Len(Outcomes) :
                /\ Outcomes[k].type = "sqs" => Outcomes[k].destination \notin DisabledQueueNames
                /\ Outcomes[k].type = "sns" => Outcomes[k].destination \notin DisabledTopicNames
          /\ results.total_processed <=
                Count(Queues, FlagNotFalse) + Count(Topics, FlagNotFalse)
          /\ (Responded /\ response.statusCode = 200) =>
                results.total_processed =
                    Count(Queues, FlagNotFalse) + Count(Topics, FlagNotFalse)
    /\ variant = "lambda-tf" =>
          /\ \A l \in TfOutcomeLists \cup {fwd.results} :
                /\ Len(l) <= Count(TfConfigured, FlagNotFalse)
                /\ \A j \in 1..Len(l) : l[j].destination \notin DisabledTfNames

\* the invocation over the 2 enabled + 1 disabled queues and topics of
\* test_enabled_field_functionality has ended with total_processed = 4 and 4 sends
C3_Witness ==
    /\ Responded /\ variant = "lambda"
    /\ config = TestEnabledConfig
    /\ results.total_processed = 4
    /\ Len(sends) = 4

\* C4: a configured destination with no enabled field is treated as enabled: the
\* lambda loops count it like an enabled one, and the lambda-tf manager loads it.
C4_AbsentFlagMeansEnabled ==
    /\ (variant = "lambda" /\ pc \in {"queues", "topics"}) =>
          results.total_processed =
              CountUpTo(Queues, qi - 1, FlagNotFalse) + CountUpTo(Topics, ti - 1, FlagNotFalse)
    /\ (variant = "lambda-tf" /\ pc # "start") =>
          \A i \in 1..Len(TfConfigured) : FlagAbsent(TfConfigured[i]) =>
              \E j \in 1..Len(destinations) : destinations[j] = TfConfigured[i]

\* C5: at every point of a lambda dispatch total_processed equals
\* len(successful) + len(failed) and the number of enabled destinations the loops
\* have processed so far; when the dispatch has returned it is the number of
\* enabled destinations of the configuration.
C5_TotalProcessedInvariant ==
    variant = "lambda" =>
        /\ results.total_processed = Len(results.successful) + Len(results.failed)
        /\ results.total_processed =
              CountUpTo(Queues, qi - 1, FlagNotFalse) + CountUpTo(Topics, ti - 1, FlagNotFalse)
        /\ (Responded /\ response.statusCode = 200) =>
              /\ response.body.results = results
              /\ results.total_processed =
                    Count(Queues, FlagNotFalse) + Count(Topics, FlagNotFalse)

\* a dispatch has returned with one successful and one failed destination
C5_Witness ==
    /\ variant = "lambda" /\ Responded /\ response.statusCode = 200
    /\ Len(results.successful) = 1 /\ Len(results.failed) = 1
    /\ results.total_processed = 2

\* C6: when extract_s3_event returns no event, the lambda invocation ends with
\* statusCode 400, no send is made and the configuration is not read.
C6_UnrecognizedTrigger ==
    (variant = "lambda" /\ pc # "start" /\ IsNone(s3_event)) =>
        /\ Responded /\ response.statusCode = 400
        /\ sends = <<>>
        /\ IsNone(config) /\ IsNone(environ) /\ files = <<>>

\* the {"invalid": "event"} trigger has been answered with 400
C6_Witness ==
    /\ variant = "lambda" /\ event = InvalidTrigger
    /\ Responded /\ response.statusCode = 400

\* C7: when the trigger is recognized and the configuration loads, the response
\* statusCode is 200 whatever the per-destination outcomes are.
C7_Status200WhenDispatched ==
    /\ (Loaded /\ pc = "done") => (Responded /\ response.statusCode = 200)
    /\ (variant = "lambda-tf" /\ pc = "done" /\ DictTruthy(extract_s3_event(event))
          /\ destfile.exists /\ destfile.text.valid) =>
          (Responded /\ response.statusCode = 200)

\* every outcome of every forward_event result of the lambda-tf invocation succeeded
TfAllSucceeded == \A l \in TfOutcomeLists : \A j \in 1..Len(l) : l[j].success

\* C8: the overall success a response reports (the lambda message "S3 event
\* forwarded successfully", the lambda-tf success flags) is true if and only if no
\* destination outcome is a failure.
C8_SuccessIffNoFailure ==
    /\ (Loaded /\ Responded /\ "message" \in DOMAIN response.body) =>
          (response.body.message = "S3 event forwarded successfully"
              <=> results.failed = <<>>)
    /\ variant = "lambda-tf" =>
          /\ \A r \in 1..Len(tf.results) :
                LET fr == tf.results[r].forwarding_result
                IN  fr.success <=> (\A j \in 1..Len(fr.results) : fr.results[j].success)
          /\ (Responded /\ IsDict(event)) => (response.body.success <=> TfAllSucceeded)

\* the configuration sources that were read: none of them holds a readable, valid
\* configuration and at least one is unreadable or invalid
LambdaUnloadable ==
    /\ variant = "lambda" /\ ~IsNone(environ)
    /\ \A k \in DOMAIN environ : ~environ[k].valid
    /\ \A i \in 1..Len(files) : files[i].exists => ~files[i].text.valid
    /\ \/ \E k \in DOMAIN environ : ~environ[k].valid
       \/ \E i \in 1..Len(files) : files[i].exists /\ ~files[i].text.valid
TfUnloadable ==
    /\ TfRead
    /\ ~destfile.exists \/ ~destfile.text.valid

\* C9: when the destination configuration cannot be loaded, the invocation ends
\* with statusCode 500 and no send is attempted.
C9_ConfigFailureIs500 ==
    (LambdaUnloadable \/ TfUnloadable) =>
        /\ sends = <<>>
        /\ pc = "done" => (Responded /\ response.statusCode = 500)

\* C10: lambda_handler never lets an exception escape, and what it returns is a
\* structured response whose statusCode is 200, 400 or 500.
C10_StructuredResponse ==
    /\ escaped = None
    /\ pc = "done" =>
          /\ Responded /\ "body" \in DOMAIN response
          /\ response.statusCode \in {200, 400, 500}

\* an exception raised during the dispatch was answered with a 500 response
C10_Witness ==
    /\ Responded /\ dispatch_exc = "KeyError"
    /\ response.statusCode = 500 /\ escaped = None

(* ------------------- claims about extract_s3_event --------------------- *)
\* the three shape markers of a payload
HasS3Entry(e) ==
    /\ "Records" \in DOMAIN e
    /\ \E i \in 1..Len(e["Records"]) :
          IsDict(e["Records"][i]) /\ Get(e["Records"][i], "eventSource", None) = "aws:s3"
IsObjectCreatedPut(e) == Get(e, "detail-type", None) = "Object Created:Put"
IsSourceS3(e) == Get(e, "source", None) = "aws.s3"

\* index of the first entry of the Records list whose eventSource is 'aws:s3'
FirstS3Index(e) ==
    CHOOSE i \in 1..Len(e["Records"]) :
        /\ IsDict(e["Records"][i]) /\ Get(e["Records"][i], "eventSource", None) = "aws:s3"
        /\ \A j \in 1..(i - 1) :
              ~(IsDict(e["Records"][j]) /\ Get(e["Records"][j], "eventSource", None) = "aws:s3")
FirstS3Entry(e) == e["Records"][FirstS3Index(e)]
\* the entries before the first 'aws:s3' entry are objects (with another source)
EarlierEntriesAreObjects(e) == \A j \in 1..(FirstS3Index(e) - 1) : IsDict(e["Records"][j])
Extracted == pc \in {"extracted", "sent"}

\* C11: extract_s3_event returns no event exactly when the payload matches none of
\* the three shapes, and a payload that does not match shape 1 but matches shape 2
\* or shape 3 is normalized from that shape.
C11_ShapesTriedInOrder ==
    Extracted =>
        /\ IsNone(s3_event) <=>
              ~(HasS3Entry(event) \/ IsObjectCreatedPut(event) \/ IsSourceS3(event))
        /\ (~HasS3Entry(event) /\ IsObjectCreatedPut(event)) =>
              (~IsNone(s3_event) /\ s3_event.eventName = "ObjectCreated:Put")
        /\ (~HasS3Entry(event) /\ ~IsObjectCreatedPut(event) /\ IsSourceS3(event)) =>
              (~IsNone(s3_event) /\ s3_event.eventSource = "aws.s3")

\* C12: for a payload with a Records list, a returned event is built from the first
\* entry whose eventSource is 'aws:s3' (its eventName, bucket name, object key,
\* eventTime, awsRegion and the entry itself as rawEvent), and it is returned whenever
\* that entry holds these fields and the entries before it are objects; the test
\* trigger yields ObjectCreated:Put, test-bucket, test/file.txt.
C12_FirstS3EntryIsUsed ==
    (Extracted /\ "Records" \in DOMAIN event) =>
        /\ ~IsNone(s3_event) =>
              /\ HasS3Entry(event)
              /\ LET r == FirstS3Entry(event)
                 IN  /\ s3_event.rawEvent = r
                     /\ s3_event = [eventName |-> r["eventName"],
                                    bucketName |-> r["s3"]["bucket"]["name"],
                                    objectKey |-> r["s3"]["object"]["key"],
                                    eventTime |-> r["eventTime"],
                                    eventSource |-> "aws:s3",
                                    awsRegion |-> r["awsRegion"],
                                    rawEvent |-> r]
        /\ (/\ HasS3Entry(event) /\ EarlierEntriesAreObjects(event)
            /\ FirstS3Entry(event) \in {S3Record, SecondS3Record, EmptyBucketNameRecord}) =>
              ~IsNone(s3_event)
        /\ event = StandardTrigger =>
              /\ ~IsNone(s3_event)
              /\ s3_event.eventName = "ObjectCreated:Put"
              /\ s3_event.bucketName = "test-bucket"
              /\ s3_event.objectKey = "test/file.txt"

\* an entry of another source is skipped and the S3 entry after it is used
C12_Witness ==
    /\ Extracted /\ "Records" \in DOMAIN event
    /\ event["Records"] = <<OtherRecord, SecondS3Record>>
    /\ ~IsNone(s3_event) /\ s3_event.bucketName = "second-bucket"

\* C13: every event extract_s3_event returns has a non-empty eventName, bucketName
\* and objectKey.
C13_ReturnedEventIsComplete ==
    (Extracted /\ ~IsNone(s3_event)) =>
        /\ Truthy(s3_event.eventName)
        /\ Truthy(s3_event.bucketName)
        /\ Truthy(s3_event.objectKey)

\* C14: when the first 'aws:s3' entry of the Records list lacks its bucket name or
\* its object key, extract_s3_event still returns an event, with that field empty.
C14_MissingSubfieldStillNormalized ==
    (/\ Extracted /\ HasS3Entry(event) /\ EarlierEntriesAreObjects(event)
     /\ FirstS3Entry(event) \in {NoBucketNameRecord, NoObjectKeyRecord}) =>
        /\ ~IsNone(s3_event)
        /\ FirstS3Entry(event) = NoBucketNameRecord => ~Truthy(s3_event.bucketName)
        /\ FirstS3Entry(event) = NoObjectKeyRecord => ~Truthy(s3_event.objectKey)

(* ---------------------- claims about the dispatch ---------------------- *)
\* the dispatch loops are at an enabled destination
AtQueue == variant = "lambda" /\ pc = "queues" /\ qi <= Len(Queues)
AtTopic == variant = "lambda" /\ pc = "topics" /\ ti <= Len(Topics)
AtTfDestination == variant = "lambda-tf" /\ pc = "forward" /\ di <= Len(destinations)
Last(l) == l[Len(l)]

\* C15: the step that handles an enabled destination whose target (queue URL, topic
\* ARN, destination ARN) is empty or absent makes no call to the send capability,
\* records one failure outcome, and leaves the dispatch at the next destination.
C15_MissingTargetStep ==
    /\ (AtQueue /\ FlagNotFalse(Queues[qi]) /\ ~Truthy(Get(Queues[qi], "url", None))) =>
          /\ sends' = sends
          /\ Len(results'.failed) = Len(results.failed) + 1
          /\ results'.successful = results.successful
          /\ pc' = "queues" /\ qi' = qi + 1
    /\ (AtTopic /\ FlagNotFalse(Topics[ti]) /\ ~Truthy(Get(Topics[ti], "arn", None))) =>
          /\ sends' = sends
          /\ Len(results'.failed) = Len(results.failed) + 1
          /\ results'.successful = results.successful
          /\ pc' = "topics" /\ ti' = ti + 1
    /\ (AtTfDestination /\ ~Truthy(Get(destinations[di], "arn", ""))) =>
          /\ sends' = sends
          /\ Len(fwd'.results) = Len(fwd.results) + 1
          /\ ~Last(fwd'.results).success
          /\ pc' = "forward" /\ di' = di + 1
C15_MissingTargetFails == [][C15_MissingTargetStep]_vars

\* the error kind the raised error stands for
ExpectedKind(out) ==
    IF out.kind = "ClientError"
    THEN IF out.code \in {"AccessDenied", "UnauthorizedOperation"} THEN "PermissionDenied"
         ELSE IF out.code \in {"ResourceNotFoundException", "InvalidParameter"}
         THEN "InvalidDestination"
         ELSE "ProviderError"
    ELSE IF out.kind = "NoCredentialsError" THEN "NoCredentials"
    ELSE "Unexpected"
\* the error kind a failure outcome is tagged with: the head of its error message
KindOf(error) ==
    CASE error[1] = "Permission denied" -> "PermissionDenied"
      [] error[1] = "Invalid destination" -> "InvalidDestination"
      [] error[1] \in {"AWS error", "Error forwarding to SQS queue", "Error forwarding to SNS topic"}
            -> "ProviderError"
      [] error[1] = "No AWS credentials available" -> "NoCredentials"
      [] error[1] \in {"Unexpected error", "Unexpected error forwarding to SQS",
                       "Unexpected error forwarding to SNS"} -> "Unexpected"
      [] OTHER -> "NotASendError"
PermissionClass == {ClientError("AccessDenied"), ClientError("UnauthorizedOperation")}
\* a send was made in this step and it raised
SendRaised == Len(sends') = Len(sends) + 1 /\ Last(sends').raised.kind # "ok"

\* the classification in lambda-tf alone (_forward_to_destination)
TfClassifiesStep ==
    (variant = "lambda-tf" /\ SendRaised) =>
        /\ Len(fwd'.results) = Len(fwd.results) + 1
        /\ ~Last(fwd'.results).success
        /\ KindOf(Last(fwd'.results).error) = ExpectedKind(Last(sends').raised)
TfAllPermissionDenied ==
    (/\ variant = "lambda-tf" /\ sends # <<>>
     /\ \A k \in 1..Len(sends) : sends[k].raised \in PermissionClass) =>
        /\ \A l \in TfOutcomeLists \cup {fwd.results} : \A j \in 1..Len(l) :
              (~l[j].success /\ KindOf(l[j].error) # "NotASendError") =>
                  KindOf(l[j].error) = "PermissionDenied"
        /\ Responded => ~response.body.success
TfClassifies == []TfAllPermissionDenied /\ [][TfClassifiesStep]_vars

\* C16: a send that raises is recorded as a failure whose error kind is the one the
\* raised error stands for (permission denied, invalid destination, provider error,
\* no credentials, unexpected), in both handlers; and when every send raised a
\* permission-class error every send failure is tagged permission denied and the
\* overall success is false.
C16_ClassifiesStep ==
    /\ TfClassifiesStep
    /\ (variant = "lambda" /\ SendRaised /\ results'.failed # results.failed) =>
          KindOf(Last(results'.failed).error) = ExpectedKind(Last(sends').raised)
C16_FailedSendIsClassified == []TfAllPermissionDenied /\ [][C16_ClassifiesStep]_vars

(* ------------------ claims about the configuration --------------------- *)
\* an environment-provided configuration is present: some S3_FORWARDER_* variable is
\* set and what is set parses
EnvKeys ==
    IF IsNone(environ) THEN {}
    ELSE DOMAIN environ \cap
            {"S3_FORWARDER_CONFIG", "S3_FORWARDER_SQS_QUEUES", "S3_FORWARDER_SNS_TOPICS"}
EnvPresent == EnvKeys # {} /\ \A k \in EnvKeys : environ[k].valid
EnvQueues ==
    IF "S3_FORWARDER_CONFIG" \in EnvKeys
    THEN Get(environ["S3_FORWARDER_CONFIG"].value, "sqs_queues", <<>>)
    ELSE IF "S3_FORWARDER_SQS_QUEUES" \in EnvKeys
    THEN environ["S3_FORWARDER_SQS_QUEUES"].value ELSE <<>>
EnvTopics ==
    IF "S3_FORWARDER_CONFIG" \in EnvKeys
    THEN Get(environ["S3_FORWARDER_CONFIG"].value, "sns_topics", <<>>)
    ELSE IF "S3_FORWARDER_SNS_TOPICS" \in EnvKeys
    THEN environ["S3_FORWARDER_SNS_TOPICS"].value ELSE <<>>
\* a config file is present: one of the paths holds a file that parses
FilePresent == \E i \in 1..Len(files) : files[i].exists /\ files[i].text.valid
FirstFile ==
    files[CHOOSE i \in 1..Len(files) :
            /\ files[i].exists /\ files[i].text.valid
            /\ \A j \in 1..(i - 1) : ~(files[j].exists /\ files[j].text.valid)].text.value
ConfigRead == variant = "lambda" /\ ~IsNone(config)

\* C17: the loaded configuration is the environment-provided one when one is present,
\* whatever the config files hold; the config file's when no S3_FORWARDER_* variable
\* is set and a config file is present; and the built-in default only when neither is
\* present.
C17_EnvThenFileThenDefault ==
    ConfigRead =>
        /\ EnvPresent =>
              (config["sqs_queues"] = EnvQueues /\ config["sns_topics"] = EnvTopics)
        /\ (EnvKeys = {} /\ FilePresent) =>
              /\ config["sqs_queues"] = Get(FirstFile, "sqs_queues", <<>>)
              /\ config["sns_topics"] = Get(FirstFile, "sns_topics", <<>>)
        /\ config = DEFAULT_CONFIG => (~EnvPresent /\ ~FilePresent)

(* ------------------ claims about retries and order ---------------------- *)
\* number of calls of the send capability `api` made to `target`
SendsTo(api, target) ==
    Cardinality({k \in 1..Len(sends) : sends[k].api = api /\ sends[k].target = target})
\* lambda-tf: the destination has a target and a supported kind
TfSendable(d) == Truthy(Get(d, "arn", "")) /\ Lower(Get(d, "type", "")) \in {"sqs", "sns"}
\* lambda-tf: the records forward_event has been entered for
TfRecordsEntered == IF variant = "lambda-tf" /\ pc = "forward" THEN ri ELSE IF ri = 0 THEN 0 ELSE ri - 1

\* no target is sent to more than once per event
AtMostOnce ==
    /\ variant = "lambda" => \A k \in 1..Len(sends) : SendsTo(sends[k].api, sends[k].target) = 1
    /\ variant = "lambda-tf" =>
          \A k \in 1..Len(sends) : SendsTo(sends[k].api, sends[k].target) <= TfRecordsEntered

\* C18: within one invocation the send capability is called at most once per event
\* and enabled destination, and when the invocation has ended it has been called
\* exactly once per event for every enabled destination that has a target (and, in
\* lambda-tf, a supported kind).
C18_NoRetries ==
    /\ AtMostOnce
    /\ (Loaded /\ pc = "done") =>
          /\ \A i \in 1..Len(Queues) :
                (FlagNotFalse(Queues[i]) /\ Truthy(Get(Queues[i], "url", None))) =>
                    SendsTo("sqs", Queues[i]["url"]) = 1
          /\ \A i \in 1..Len(Topics) :
                (FlagNotFalse(Topics[i]) /\ Truthy(Get(Topics[i], "arn", None))) =>
                    SendsTo("sns", Topics[i]["arn"]) = 1
    /\ (variant = "lambda-tf" /\ pc = "done" /\ IsDict(event)) =>
          \A j \in 1..Len(destinations) : TfSendable(destinations[j]) =>
              SendsTo(Lower(destinations[j]["type"]), destinations[j]["arn"]) = Len(TfRecords)

\* position of a destination in the configuration order: the queues, then the topics
RECURSIVE IndexOf(_, _, _)
IndexOf(l, key, v) ==
    IF l = <<>> THEN 0
    ELSE IF Get(Last(l), key, None) = v /\ IndexOf(SubSeq(l, 1, Len(l) - 1), key, v) = 0
    THEN Len(l)
    ELSE IndexOf(SubSeq(l, 1, Len(l) - 1), key, v)
OutcomePosition(o) ==
    IF o.type = "sqs" THEN IndexOf(Queues, "name", o.destination)
    ELSE Len(Queues) + IndexOf(Topics, "name", o.destination)
SendPosition(c) ==
    IF c.api = "sqs" THEN IndexOf(Queues, "url", c.target)
    ELSE Len(Queues) + IndexOf(Topics, "arn", c.target)
InConfigOrder(l, Position(_)) ==
    \A a, b \in 1..Len(l) : a < b => Position(l[a]) < Position(l[b])
RECURSIVE IsSubsequence(_, _)
IsSubsequence(sub, l) ==
    IF sub = <<>> THEN TRUE
    ELSE IF l = <<>> THEN FALSE
    ELSE IF Head(sub) = Head(l) THEN IsSubsequence(Tail(sub), Tail(l))
    ELSE IsSubsequence(sub, Tail(l))

\* C19: the sends are made in configuration order (the queues in list order, then the
\* topics in list order), and the outcomes inside results.successful and inside
\* results.failed are in the order of their destinations in the configuration; in
\* lambda-tf the destinations are dispatched in the order of destinations.json and
\* the j-th outcome of a record is that of the j-th enabled destination.
C19_ConfigurationOrder ==
    /\ Loaded =>
          /\ InConfigOrder(sends, SendPosition)
          /\ InConfigOrder(results.successful, OutcomePosition)
          /\ InConfigOrder(results.failed, OutcomePosition)
    /\ variant = "lambda-tf" =>
          /\ IsSubsequence(destinations, TfConfigured)
          /\ \A l \in TfOutcomeLists \cup {fwd.results} : \A j \in 1..Len(l) :
                l[j].destination = Get(destinations[j], "name", "unknown")

\* a dispatch over the test configuration has ended with two successes and two failures
C19_Witness ==
    /\ Loaded /\ Responded /\ response.statusCode = 200
    /\ Len(results.successful) = 2 /\ Len(results.failed) = 2 /\ Len(sends) = 4

\* lambda-tf: the loop is at a destination whose type is neither sqs nor sns
AtUnsupportedKind ==
    AtTfDestination /\ Lower(Get(destinations[di], "type", "")) \notin {"sqs", "sns"}
UnsupportedKindFails ==
    /\ sends' = sends
    /\ Len(fwd'.results) = Len(fwd.results) + 1
    /\ ~Last(fwd'.results).success
    /\ fwd'.error_count = fwd.error_count + 1
    /\ pc' = "forward" /\ di' = di + 1

\* C20 as stated: the step that handles a destination of an unsupported kind makes
\* no send, records an 'unsupported type' failure and moves to the next destination.
C20_UnsupportedTypeStep ==
    AtUnsupportedKind =>
        /\ UnsupportedKindFails
        /\ Last(fwd'.results).error[1] = "Unsupported destination type"
C20_UnsupportedTypeOutcome == [][C20_UnsupportedTypeStep]_vars

\* C20, amended: the step that handles a destination of an unsupported kind makes no
\* send, records a failure and moves to the next destination; the failure is
\* 'unsupported type' when the destination has an ARN and 'No ARN provided' when it
\* has none (the ARN is checked before the type).
C20_UnsupportedKindStep ==
    AtUnsupportedKind =>
        /\ UnsupportedKindFails
        /\ Last(fwd'.results).error[1] =
              (IF Truthy(Get(destinations[di], "arn", ""))
               THEN "Unsupported destination type" ELSE "No ARN provided for destination")
C20_UnsupportedKindFails == [][C20_UnsupportedKindStep]_vars

\* an 'unsupported type' failure was recorded and the next destination was handled
C20_Witness ==
    /\ variant = "lambda-tf" /\ Len(fwd.results) = 2 /\ sends # <<>>
    /\ ~fwd.results[1].success
    /\ fwd.results[1].error = <<"Unsupported destination type", "http">>

(* --------------------- claims C21 and C22 -------------------------------- *)
NoName(d) == "name" \notin DOMAIN d

\* C21: an enabled destination configured without a name is dispatched like the
\* others: no exception leaves the dispatcher because of it, the invocation ends with
\* a 200 response, and its outcome is recorded under the name 'unknown'.
C21_NamelessIsUnknown ==
    /\ (Loaded /\ pc = "done") =>
          /\ \A i \in 1..Len(Queues) : (FlagNotFalse(Queues[i]) /\ NoName(Queues[i])) =>
                /\ dispatch_exc = None /\ Responded /\ response.statusCode = 200
                /\ \E k \in 1..Len(Outcomes) :
                      Outcomes[k].type = "sqs" /\ Outcomes[k].destination = "unknown"
          /\ \A i \in 1..Len(Topics) : (FlagNotFalse(Topics[i]) /\ NoName(Topics[i])) =>
                /\ dispatch_exc = None /\ Responded /\ response.statusCode = 200
                /\ \E k \in 1..Len(Outcomes) :
                      Outcomes[k].type = "sns" /\ Outcomes[k].destination = "unknown"
    /\ variant = "lambda-tf" =>
          \A l \in TfOutcomeLists \cup {fwd.results} : \A j \in 1..Len(l) :
              NoName(destinations[j]) => l[j].destination = "unknown"

\* C22: in every call of the send capability made for an event extract_s3_event
\* returned, each of the attributes EventType, BucketName, ObjectKey and EventTime is
\* present with a string as its StringValue, never None.
C22_AttributesAreStrings ==
    variant = "lambda" =>
        \A k \in 1..Len(sends) :
            /\ {"EventType", "BucketName", "ObjectKey", "EventTime"}
                  \subseteq DOMAIN sends[k].attributes
            /\ \A a \in DOMAIN sends[k].attributes :
                  sends[k].attributes[a].StringValue # None

(* ------------------ claims about verify_destinations -------------------- *)
Verified == variant = "lambda-tf" /\ ~IsNone(ret)
ValidationErrors == IF Verified THEN Get(ret, "validation_errors", <<>>) ELSE <<>>
\* the destination names the reported errors are about
ErrorNames == {ValidationErrors[k][2] : k \in 1..Len(ValidationErrors)}
HasName(d) == "name" \in DOMAIN d
\* the destination has an empty target, or a kind outside {sqs, sns}
Invalid(d) ==
    ~Truthy(Get(d, "arn", "")) \/ Lower(Get(d, "type", "")) \notin {"sqs", "sns"}

\* C23: verify_destinations reports an error for every destination of
\* destinations.json that has an empty ARN or a type outside {sqs, sns}, none for a
\* destination with an ARN and a supported type, and its status is 'warning'
\* exactly when it reports at least one error.
C23_ValidationFlagsInvalid ==
    Verified =>
        /\ \A i \in 1..Len(TfConfigured) : HasName(TfConfigured[i]) =>
              /\ Invalid(TfConfigured[i]) => TfConfigured[i]["name"] \in ErrorNames
              /\ ~Invalid(TfConfigured[i]) => TfConfigured[i]["name"] \notin ErrorNames
        /\ ret.verification_status = "warning" <=> ValidationErrors # <<>>
        /\ ret.verification_status \in {"warning", "success"}

\* forward_event has handled every loaded destination for the first record
ForwardedAll ==
    /\ Verified /\ destinations # <<>> /\ Len(fwd.results) = Len(destinations)
    /\ pc \in {"forward", "records"} /\ ri <= 2
\* forwarding to the j-th loaded destination failed and no send was made for it
FailedWithoutSend(j) ==
    /\ ~fwd.results[j].success
    /\ \A k \in 1..Len(sends) : sends[k].target # Get(destinations[j], "arn", "")

\* C27: for every loaded destination, verify_destinations reports an error for it if
\* and only if forwarding an event to it fails without a send; and for a destination
\* with no ARN both report the missing ARN only, whatever its type.
C27_VerifyAgreesWithForward ==
    ForwardedAll =>
        /\ Len(ValidationErrors) =
              Cardinality({j \in 1..Len(destinations) : FailedWithoutSend(j)})
        /\ \A j \in 1..Len(destinations) :
              /\ ValidationError(destinations[j]) # <<>> <=> FailedWithoutSend(j)
              /\ HasName(destinations[j]) =>
                    (destinations[j]["name"] \in ErrorNames <=> FailedWithoutSend(j))
              /\ ~Truthy(Get(destinations[j], "arn", "")) =>
                    /\ fwd.results[j].error = <<"No ARN provided for destination">>
                    /\ HasName(destinations[j]) =>
                          \A k \in 1..Len(ValidationErrors) :
                             ValidationErrors[k][2] = destinations[j]["name"]
                                 => ValidationErrors[k][1] = "has no ARN"

\* a destination of type 'SNS' was sent to and one without ARN was reported by both
C27_Witness ==
    /\ ForwardedAll /\ Len(destinations) = 2
    /\ Get(destinations[1], "type", "") = "SNS" /\ fwd.results[1].success
    /\ ~Truthy(Get(destinations[2], "arn", "")) /\ Get(destinations[2], "type", "") = "http"
    /\ Len(ValidationErrors) = 1

(* -------------------- claims about _ensure_structure -------------------- *)
ListKeys == {"sqs_queues", "sns_topics"}
\* the value is a JSON array
IsArray(v) == \A i \in 1..Len(v) : "json_nonlist" \notin DOMAIN v[i]

\* C24: _ensure_structure returns a mapping in which sqs_queues and sns_topics are
\* lists: the input's list when it had one (same entries, same order), the empty
\* list when the key was missing or held something else; every other key of the
\* input is returned with its value, and the input itself is as it was.
C24_EnsureStructure ==
    pc = "ensured" =>
        /\ DOMAIN ret = DOMAIN config \cup ListKeys
        /\ \A k \in ListKeys :
              /\ IsArray(ret[k])
              /\ ret[k] = (IF k \in DOMAIN config /\ IsArray(config[k]) THEN config[k] ELSE <<>>)
        /\ \A k \in DOMAIN config \ ListKeys : ret[k] = config[k]
        /\ config \in EnsureInputs

\* a non-list sqs_queues became [], the three topics and the other keys were kept
C24_Witness ==
    /\ pc = "ensured"
    /\ DOMAIN config = {"sqs_queues", "sns_topics", "version"}
    /\ ~IsArray(config["sqs_queues"]) /\ ret["sqs_queues"] = <<>>
    /\ Len(ret["sns_topics"]) = 3 /\ ret["sns_topics"][2]["enabled"] = FALSE
    /\ ret["version"] = "1.0"

(* --------------------- claims about repeated invocations ---------------- *)
\* the enabled destinations the current invocation has dispatched so far and recorded
ProcessedNow ==
    LET qs == Get(config, "sqs_queues", <<>>)
        ts == Get(config, "sns_topics", <<>>)
        nq == IF pc = "queues" THEN qi - 1 ELSE Len(qs)
        nt == IF pc = "queues" THEN 0 ELSE IF pc = "topics" THEN ti - 1 ELSE Len(ts)
    IN  Cardinality({i \in 1..nq : IsEnabled(qs[i])}) + Cardinality({i \in 1..nt : IsEnabled(ts[i])})
\* the report counts the destinations of this invocation and nothing else
ReportIsOfThisInvocation ==
    /\ (variant = "lambda" /\ (pc \in {"queues", "topics"}
                               \/ (pc = "done" /\ Get(response, "statusCode", 0) = 200))) =>
          /\ results.total_processed = ProcessedNow
          /\ Len(results.successful) + Len(results.failed) = ProcessedNow
          /\ Len(sends) <= ProcessedNow
          /\ pc = "done" => response.body.results = results
    /\ (variant = "lambda" /\ pc = "queues" /\ qi = 1) => results = EmptyResults
    /\ (variant = "lambda-tf" /\ pc = "records" /\ ri = 1) => tf = EmptyCounts
    /\ (variant = "lambda-tf" /\ pc = "forward" /\ di = 1) => fwd = EmptyCounts
\* a step of the dispatch loops leaves what was loaded as it was
DispatchKeepsConfiguration ==
    pc \in {"queues", "topics", "records", "forward"} =>
        /\ config' = config /\ environ' = environ /\ files' = files
        /\ destinations' = destinations /\ destfile' = destfile
        /\ served' = served

\* C25: in every invocation of a process the report counts only the destinations
\* dispatched in that invocation (it is empty when dispatch starts), and no dispatch
\* step changes the loaded configuration, so an earlier invocation does not show in
\* a later one's result.
C25_InvocationsAreIndependent ==
    []ReportIsOfThisInvocation /\ [][DispatchKeepsConfiguration]_vars

\* a second invocation reported its own two destinations
C25_Witness ==
    /\ variant = "lambda" /\ served = 1 /\ pc = "done"
    /\ Get(response, "statusCode", 0) = 200
    /\ config = DEFAULT_CONFIG
    /\ response.body.results.total_processed = 2
    /\ Len(response.body.results.failed) = 1 /\ Len(response.body.results.successful) = 1

(* ------------------ claims about multi-record notifications ------------- *)
\* the number of 'aws:s3' entries of the trigger's Records list
S3EntryCount(e) ==
    IF IsDict(e) /\ "Records" \in DOMAIN e
    THEN Cardinality({i \in 1..Len(e["Records"]) :
            IsDict(e["Records"][i]) /\ Get(e["Records"][i], "eventSource", None) = "aws:s3"})
    ELSE 0
Dispatching == variant = "lambda" /\ pc \in {"queues", "topics", "done"}

\* C26: in lambda/main.py, for a Records trigger with k >= 1 'aws:s3' entries, the
\* one event dispatched is that of the first such entry: every send carries its
\* attributes, no send target is sent to twice, and the sends are no more than the
\* enabled destinations, whatever k is.
C26_OnlyFirstRecordIsDispatched ==
    (Dispatching /\ S3EntryCount(event) >= 1) =>
        LET first == RecordEvent(FirstS3Entry(event))
        IN  /\ ~first.raised
            /\ s3_event = first.value
            /\ \A k \in 1..Len(sends) :
                  /\ sends[k].attributes = _get_sqs_attributes(first.value)
                  /\ SendsTo(sends[k].api, sends[k].target) = 1
            /\ Loaded =>
                  Len(sends) <= Cardinality({i \in 1..Len(Queues) : IsEnabled(Queues[i])})
                                + Cardinality({i \in 1..Len(Topics) : IsEnabled(Topics[i])})
            /\ (pc = "done" /\ Get(response, "statusCode", 0) = 200) =>
                  response.body.event = first.value

\* two S3 events in one notification: the enabled destinations were each sent the
\* first one, and nothing was sent about the second
C26_Witness ==
    /\ Dispatching /\ pc = "done"
    /\ event = [Records |-> <<S3Record, SecondS3Record>>]
    /\ Get(response, "statusCode", 0) = 200
    /\ Len(sends) = 4
    /\ \A k \in 1..Len(sends) : sends[k].attributes.BucketName.StringValue = "test-bucket"

(* ------------------ claims about get_destinations_config ---------------- *)
\* lambda_handler has called get_destinations_config
ConfigLoaded == variant = "lambda" /\ ~IsNone(environ)
HasFullConfig == ConfigLoaded /\ "S3_FORWARDER_CONFIG" \in DOMAIN environ
\* S3_FORWARDER_CONFIG does not parse, or parses to {}
EnvUnusable ==
    /\ HasFullConfig
    /\ \/ ~environ["S3_FORWARDER_CONFIG"].valid
       \/ environ["S3_FORWARDER_CONFIG"].value = EmptyDict
\* S3_FORWARDER_CONFIG is {"sqs_queues": [], "sns_topics": []}
EnvExplicitlyEmpty ==
    /\ HasFullConfig /\ environ["S3_FORWARDER_CONFIG"].valid
    /\ environ["S3_FORWARDER_CONFIG"].value = [sqs_queues |-> <<>>, sns_topics |-> <<>>]
FailedToLoad ==
    /\ "body" \in DOMAIN response
    /\ Get(response.body, "error", None) = "Failed to load configuration"

\* C28: get_destinations_config never raises and always returns a mapping with both
\* lists; an S3_FORWARDER_CONFIG that does not parse or is {} gives what the files
\* and the default give without it; one with two empty lists is used and nothing is
\* sent; and the handler never answers 'Failed to load configuration'.
C28_ConfigurationAlwaysLoads ==
    /\ ~FailedToLoad
    /\ escaped # "JSONDecodeError" /\ escaped # "AttributeError"
    /\ ConfigLoaded =>
          /\ ~IsNone(config) /\ DOMAIN config # {}
          /\ {"sqs_queues", "sns_topics"} \subseteq DOMAIN config
          /\ pc \in {"queues", "topics", "done"}
          /\ EnvUnusable =>
                config = (IF FilePresent /\ FirstFile # EmptyDict
                          THEN [k \in DOMAIN FirstFile \cup {"sqs_queues", "sns_topics"} |->
                                   Get(FirstFile, k, <<>>)]
                          ELSE DEFAULT_CONFIG)
          /\ EnvExplicitlyEmpty =>
                /\ config = [sqs_queues |-> <<>>, sns_topics |-> <<>>]
                /\ sends = <<>>
                /\ pc = "done" =>
                      (response.statusCode = 200 /\ response.body.results = EmptyResults)

\* {} in the environment with a config file: the file's queue was used
C28_Witness ==
    /\ ConfigLoaded /\ pc = "done"
    /\ EnvUnusable /\ environ["S3_FORWARDER_CONFIG"].valid
    /\ files[1].exists /\ files[1].text.valid
    /\ config = [sqs_queues |-> FileConfig["sqs_queues"], sns_topics |-> <<>>]
    /\ Len(sends) = 1

(* ------------------ claims about the lambda-tf record loop -------------- *)
InRecordLoop == variant = "lambda-tf" /\ pc \in {"records", "forward", "done"} /\ IsDict(event)
\* the r-th entry of the handler's results is that of a forwarded record
WasForwarded(r) == "forwarding_result" \in DOMAIN tf.results[r]
\* the r-th record was forwarded and one of its destinations failed
FailedDestination(r) ==
    /\ WasForwarded(r)
    /\ \E j \in 1..Len(tf.results[r].forwarding_result.results) :
          ~tf.results[r].forwarding_result.results[j].success
\* the outcomes l are those of the first n loaded destinations, in their order
OutcomesOfFirst(l, n) ==
    /\ Len(l) = n
    /\ \A j \in 1..n : l[j].destination = Get(destinations[j], "name", "unknown")
\* the records before ri are done, in order, and the current one is at destination di
LoopProgress ==
    /\ Len(tf.results) = (IF pc = "forward" THEN ri - 1 ELSE IF pc = "done" THEN Len(TfRecords) ELSE ri - 1)
    /\ tf.success_count + tf.error_count = Len(tf.results)
    /\ (pc = "forward") => OutcomesOfFirst(fwd.results, di - 1)
\* the r-th results entry is that of the r-th record, forwarded to every destination
ForwardedToAll(r) ==
    /\ WasForwarded(r)
    /\ tf.results[r].record.bucket =
          Get(Get(Get(TfRecords[r], "s3", EmptyDict), "bucket", EmptyDict), "name", "unknown")
    /\ OutcomesOfFirst(tf.results[r].forwarding_result.results, Len(destinations))

====
